---- MODULE Spec2Model ----
(***************************************************************************)
(* Model of the retrieval core of the Polish legal assistant:               *)
(*   backend/app/services/retrieval_service.py  (RetrievalService)           *)
(*   backend/app/services/query_preprocessing.py (QueryPreprocessor)         *)
(*   backend/app/config.py                       (Settings)                  *)
(*                                                                           *)
(* Texts are sequences of one-character strings.  Similarity scores are the *)
(* index's floats in hundredths (0.65 is 65), so that comparisons against   *)
(* the thresholds are exact.                                                *)
(***************************************************************************)
EXTENDS Integers, Sequences, FiniteSets, TLC

(***************************************************************************)
(* Bounds of the model                                                      *)
(***************************************************************************)
\* longest list of matches the index answers with in the model
MaxMatches == 3

(***************************************************************************)
(* Settings (config.py)                                                     *)
(***************************************************************************)
\* rag_tier1_threshold = 0.65
Tier1Threshold == 65
\* rag_tier2_threshold = 0.50
Tier2Threshold == 50
\* rag_tier1_top_k, default
Tier1TopKDefault == 5
\* rag_tier2_top_k, default
Tier2TopKDefault == 15
\* stop_after_attempt(3) of the retry decorator on generate_embedding
MaxEmbeddingAttempts == 3

\* The top_k settings are read from the environment (1..20 and 1..30); the
\* model runs the defaults and one small configuration in which the index's
\* top_k cap is reached by the modelled answers.
SettingsChoices ==
    { [rag_tier1_top_k |-> Tier1TopKDefault, rag_tier2_top_k |-> Tier2TopKDefault],
      [rag_tier1_top_k |-> 2, rag_tier2_top_k |-> 3] }

\* Scores the index reports: below, at and above each tier's threshold.
Scores == {49, 50, 65, 70}

\* Optional[str] category filter: None or a category name
None == "None"
Categories == {None, "immigration"}

(***************************************************************************)
(* QueryPreprocessor (query_preprocessing.py)                               *)
(***************************************************************************)
\* \s of the regular expressions, over the model's characters
IsSpace(c) == c = " "

\* \w of the regular expressions: every character of the model that is not
\* whitespace or punctuation is a letter
NonWordChars == {" ", "?", "!", ".", ",", ";", ":"}
IsWordChar(c) == c \notin NonWordChars

\* re.IGNORECASE, over the model's letters
Lower(c) == CASE c = "N" -> "n" [] c = "R" -> "r" [] OTHER -> c

\* The entries of POLISH_ABBREVIATIONS that can match a text over the model's
\* characters (n, r, a, N, R and punctuation), in dictionary order.
POLISH_ABBREVIATIONS ==
    << << <<"r", ".">>, <<"r", "o", "k", "u">> >>,
       << <<"n", "r">>, <<"n", "u", "m", "e", "r">> >> >>

RECURSIVE DropLeadingSpaces(_)
DropLeadingSpaces(s) ==
    IF s # <<>> /\ IsSpace(Head(s)) THEN DropLeadingSpaces(Tail(s)) ELSE s

RECURSIVE DropTrailingSpaces(_)
DropTrailingSpaces(s) ==
    IF s # <<>> /\ IsSpace(s[Len(s)])
    THEN DropTrailingSpaces(SubSeq(s, 1, Len(s) - 1)) ELSE s

\* re.sub(r'\s+', ' ', text)
RECURSIVE CollapseWhitespace(_)
CollapseWhitespace(s) ==
    IF s = <<>> THEN <<>>
    ELSE IF IsSpace(Head(s))
         THEN <<" ">> \o CollapseWhitespace(DropLeadingSpaces(s))
         ELSE <<Head(s)>> \o CollapseWhitespace(Tail(s))

\* _normalize_whitespace: collapse runs of whitespace, then strip()
_normalize_whitespace(text) ==
    DropTrailingSpaces(DropLeadingSpaces(CollapseWhitespace(text)))

\* \b at the gap before position p (1..Len+1): exactly one side is a letter
WordBoundary(text, p) ==
    LET before == p > 1 /\ IsWordChar(text[p - 1])
        after  == p <= Len(text) /\ IsWordChar(text[p])
    IN before # after

\* r'\b' + re.escape(abbr) + r'\b' matches at position i, ignoring case
AbbreviationMatchesAt(text, i, abbr) ==
    /\ i + Len(abbr) - 1 <= Len(text)
    /\ \A j \in 1..Len(abbr) : Lower(text[i + j - 1]) = Lower(abbr[j])
    /\ WordBoundary(text, i)
    /\ WordBoundary(text, i + Len(abbr))

\* re.sub(pattern, full_form, text): leftmost, non-overlapping matches
RECURSIVE SubAbbreviation(_, _, _, _)
SubAbbreviation(text, i, abbr, full_form) ==
    IF i > Len(text) THEN <<>>
    ELSE IF AbbreviationMatchesAt(text, i, abbr)
         THEN full_form \o SubAbbreviation(text, i + Len(abbr), abbr, full_form)
         ELSE <<text[i]>> \o SubAbbreviation(text, i + 1, abbr, full_form)

\* _expand_abbreviations: one re.sub per dictionary entry, in order
RECURSIVE ExpandFrom(_, _)
ExpandFrom(text, n) ==
    IF n > Len(POLISH_ABBREVIATIONS) THEN text
    ELSE ExpandFrom(SubAbbreviation(text, 1, POLISH_ABBREVIATIONS[n][1],
                                    POLISH_ABBREVIATIONS[n][2]), n + 1)

_expand_abbreviations(text) == ExpandFrom(text, 1)

IsQuestionOrBang(c) == c \in {"?", "!"}
IsTrailingPunct(c) == c \in {".", ",", ";", ":"}

\* length of the run of ? and ! that starts at position i
RECURSIVE BangRun(_, _)
BangRun(text, i) ==
    IF i <= Len(text) /\ IsQuestionOrBang(text[i]) THEN 1 + BangRun(text, i + 1) ELSE 0

\* re.sub(r'[?!]{2,}', '?', text)
RECURSIVE CollapseBangs(_, _)
CollapseBangs(text, i) ==
    IF i > Len(text) THEN <<>>
    ELSE IF BangRun(text, i) >= 2
         THEN <<"?">> \o CollapseBangs(text, i + BangRun(text, i))
         ELSE <<text[i]>> \o CollapseBangs(text, i + 1)

\* r'\s+[.,;:]+\s*$' matches the whole suffix that starts at position i
TrailingPunctMatchesAt(text, i) ==
    \E a \in i..Len(text) : \E b \in (a + 1)..Len(text) :
        /\ \A j \in i..a : IsSpace(text[j])
        /\ \A j \in (a + 1)..b : IsTrailingPunct(text[j])
        /\ \A j \in (b + 1)..Len(text) : IsSpace(text[j])

\* re.sub(r'\s+[.,;:]+\s*$', '', text): the leftmost match is removed
StripTrailingPunct(text) ==
    LET starts == {i \in 1..Len(text) : TrailingPunctMatchesAt(text, i)}
    IN IF starts = {} THEN text
       ELSE SubSeq(text, 1, (CHOOSE i \in starts : \A j \in starts : i <= j) - 1)

\* _clean_punctuation
_clean_punctuation(text) == StripTrailingPunct(CollapseBangs(text, 1))

\* preprocess: whitespace, abbreviations, punctuation, whitespace again
preprocess(query) ==
    IF query = <<>> THEN query
    ELSE _normalize_whitespace(
             _clean_punctuation(
                 _expand_abbreviations(
                     _normalize_whitespace(query))))

(***************************************************************************)
(* Collaborators: the embedding capability and the vector index            *)
(***************************************************************************)
\* Queries the callers send (raw text, before preprocessing)
Queries ==
    { <<"n", "r", " ", "a", "?", "?", " ", ".">>,
      <<"a", " ", " ", "r", ".", "a", " ", ",", " ">> }

\* The vector the embedding model answers with for a text; the model only
\* needs that equal texts give equal vectors and different texts different ones.
Embedding(text) == [of |-> text]

Min(a, b) == IF a <= b THEN a ELSE b

\* The answers index.query can give for top_k = k: at most k matches, each an
\* id and a score (the id of a match is its position in the answer).  The
\* code does not rely on the order of the answer, so every order is modelled.
Responses(k) ==
    UNION { { [i \in 1..n |-> [id |-> i, score |-> f[i]]] : f \in [1..n -> Scores] } :
            n \in 0..Min(k, MaxMatches) }

(***************************************************************************)
(* RetrievalService: pure parts                                             *)
(***************************************************************************)
\* retrieve_documents keeps a match unless score < threshold
PassesThresholdStrict(score, threshold) == score > threshold
PassesThreshold(score, threshold) == ~(score < threshold)

\* the loop over results.matches: documents in the order of the answer
RECURSIVE FilterByThreshold(_, _)
FilterByThreshold(matches, threshold) ==
    IF matches = <<>> THEN <<>>
    ELSE IF PassesThreshold(Head(matches).score, threshold)
         THEN <<[id |-> Head(matches).id, score |-> Head(matches).score]>>
              \o FilterByThreshold(Tail(matches), threshold)
         ELSE FilterByThreshold(Tail(matches), threshold)

\* place d behind every document whose score is at least d's
RECURSIVE InsertDescending(_, _)
InsertDescending(d, sorted) ==
    IF sorted = <<>> THEN <<d>>
    ELSE IF Head(sorted).score >= d.score
         THEN <<Head(sorted)>> \o InsertDescending(d, Tail(sorted))
         ELSE <<d>> \o sorted

\* sorted(documents, key=score, reverse=True): Python's sort is stable, and
\* reverse=True keeps the original order of elements with equal keys
RECURSIVE SortedDescending(_)
SortedDescending(documents) ==
    IF documents = <<>> THEN <<>>
    ELSE InsertDescending(documents[Len(documents)],
                          SortedDescending(SubSeq(documents, 1, Len(documents) - 1)))

\* place d behind every document whose score is at most d's
RECURSIVE InsertAscending(_, _)
InsertAscending(d, sorted) ==
    IF sorted = <<>> THEN <<d>>
    ELSE IF Head(sorted).score <= d.score
         THEN <<Head(sorted)>> \o InsertAscending(d, Tail(sorted))
         ELSE <<d>> \o sorted

RECURSIVE SortedAscending(_)
SortedAscending(documents) ==
    IF documents = <<>> THEN <<>>
    ELSE InsertAscending(documents[Len(documents)],
                         SortedAscending(SubSeq(documents, 1, Len(documents) - 1)))

Reverse(s) == [i \in 1..Len(s) |-> s[Len(s) + 1 - i]]

\* sorted(documents, key=score)[::-1]: descending, but ties come out reversed
_rerank_documents_reversed(documents) ==
    IF documents = <<>> THEN documents ELSE Reverse(SortedAscending(documents))

\* _rerank_documents
_rerank_documents(documents) ==
    IF documents = <<>> THEN documents ELSE SortedDescending(documents)

\* stop=stop_after_attempt(3): no further attempt after attempt number n
stop_after_attempt_4(n) == n >= MaxEmbeddingAttempts + 1
stop_after_attempt(n) == n >= MaxEmbeddingAttempts

\* filter_dict if filter_dict else None
IndexFilter(category) == IF category # None THEN [category |-> category] ELSE None

\* the arguments of the tier-1 call of retrieve_documents
Tier1Call(q, c, s) ==
    [query |-> q, top_k |-> s.rag_tier1_top_k, category_filter |-> c,
     min_score |-> Tier1Threshold]

\* the arguments of the tier-2 call of retrieve_documents
Tier2CallStrict(q, c, s) ==
    [query |-> q, top_k |-> s.rag_tier1_top_k, category_filter |-> c,
     min_score |-> Tier1Threshold]
Tier2Call(q, c, s) ==
    [query |-> q, top_k |-> s.rag_tier2_top_k, category_filter |-> c,
     min_score |-> Tier2Threshold]

\* what retrieve_with_fallback hands to its caller
Return(docs, label) == [kind |-> "return", docs |-> docs, tier |-> label]
Raise == [kind |-> "raise", docs |-> <<>>, tier |-> None]
NoOutcome == [kind |-> "none", docs |-> <<>>, tier |-> None]

\* if len(tier1_docs) >= 2
Tier1SufficientAt3(docs) == Len(docs) >= 3
Tier1SufficientAt1(docs) == Len(docs) >= 1
Tier1Sufficient(docs) == Len(docs) >= 2

\* the end of the tier-2 try block: tier2_docs if any, else no_context
Tier2ReturnRaisesOnEmpty(docs) ==
    IF docs # <<>> THEN Return(docs, "tier2") ELSE Raise
Tier2Return(docs) ==
    IF docs # <<>> THEN Return(docs, "tier2") ELSE Return(<<>>, "no_context")

\* the except block of tier 2
Tier2ExceptReturnKeepsTier1(t1docs) ==
    IF t1docs # <<>> THEN Return(t1docs, "tier1") ELSE Return(<<>>, "no_context")
Tier2ExceptReturn(t1docs) == Return(<<>>, "no_context")

(***************************************************************************)
(* RetrievalService: state                                                  *)
(***************************************************************************)
VARIABLES
    openai_client,        \* self.openai_client is not None
    pinecone_client,      \* self.pinecone_client is not None
    index,                \* self.index is not None
    _index_initialized,   \* self._index_initialized
    settings,             \* the top_k settings in force
    pc,                   \* where the call of retrieve_with_fallback stands
    query,                \* argument query
    category_filter,      \* argument category_filter
    tier,                 \* the tier whose retrieve_documents call is running
    calls,                \* the retrieve_documents calls made so far, in order
    status,               \* per tier: not_started, running, returned, failed
    cause,                \* per tier: what made retrieve_documents raise
    preprocessed_query,   \* local of retrieve_documents
    attempt_number,       \* attempts the retry decorator has made
    query_embedding,      \* local of retrieve_documents
    results,              \* local of retrieve_documents: the index's answer
    documents,            \* local of retrieve_documents
    tier1_docs,           \* local of retrieve_with_fallback
    tier2_docs,           \* local of retrieve_with_fallback
    embed_log,            \* every attempt of generate_embedding of this call
    index_log,            \* every index.query of this call
    outcome               \* what retrieve_with_fallback handed to its caller

service == <<openai_client, pinecone_client, index, _index_initialized, settings>>
control == <<pc, tier, calls, status, cause, outcome, tier1_docs, tier2_docs>>
frame == <<preprocessed_query, attempt_number, query_embedding, results, documents>>
logs == <<embed_log, index_log>>
request == <<query, category_filter>>
retrieval_vars == <<service, control, frame, logs, request>>

(***************************************************************************)
(* State of the other components.  Each component has a specification of   *)
(* its own; the variables of the others stay parked while it runs.         *)
(***************************************************************************)
VARIABLES
    raw_query,            \* QueryPreprocessor: the query handed to preprocess
    passes                \* QueryPreprocessor: results of successive preprocess calls

normalizer_vars == <<raw_query, passes>>

VARIABLES
    retrieved_docs,       \* _calculate_confidence: argument retrieved_docs
    llm_metadata,         \* _calculate_confidence: argument llm_metadata
    confidence            \* _calculate_confidence: <<value returned>>, <<>> before the call

confidence_vars == <<retrieved_docs, llm_metadata, confidence>>

VARIABLES
    rag_pc,               \* where the call of process_query stands
    chat_request,         \* argument request: query and category_filter
    retrieval_available,  \* what retrieval_service.check_availability answers
    llm_available,        \* what llm_service.check_availability answers
    tier_used,            \* local of process_query
    generated_answer,     \* local of process_query
    generate_calls,       \* calls of llm_service.generate_response so far
    metrics_collector,    \* MetricsCollector: counters and query_metrics
    metrics_file,         \* the lines of the metrics file
    write_failed,         \* the write of this query's metric raised
    retrieve_calls,       \* arguments of the retrieve_with_fallback calls so far
    failure,              \* what stopped the pipeline: none, unavailable, generation, metrics
    response              \* what process_query returned

rag_vars == <<rag_pc, chat_request, retrieval_available, llm_available, tier_used,
              generated_answer, generate_calls, metrics_collector, metrics_file,
              write_failed, retrieve_calls, failure, response>>

VARIABLES
    chunker,              \* DocumentChunker: chunk_size and chunk_overlap
    document,             \* argument document of chunk_document: id and content
    strategy,             \* argument strategy of chunk_document
    chunks,               \* local of chunk_document, with the pieces of every chunk
    chunk_docs,           \* what chunk_document returned
    chunk_pc              \* where the call of chunk_document stands

chunker_vars == <<chunker, document, strategy, chunks, chunk_docs, chunk_pc>>

VARIABLES
    ingest_document,      \* ingestion: the document whose chunks are ingested
    chunk_list,           \* ingestion: the chunks, as the steps share them
    created_chunks,       \* ingestion: the chunks as chunking created them
    batch_size,           \* ingestion: size of the embedding and upsert batches
    loop_index,           \* ingestion: i of the running loop
    tasks,                \* embed_chunks_batch: tasks of the batch still running
    completion_log,       \* embed_chunks_batch: tasks of the batch in order of completion
    embedded_chunks,      \* embed_chunks_batch: local embedded_chunks
    vectors,              \* what prepare_vectors / process_document returned
    upserted,             \* the vectors written to the index, in order of writing
    ingest_pc             \* where the ingestion run stands

ingest_vars == <<ingest_document, chunk_list, created_chunks, batch_size, loop_index,
                 tasks, completion_log, embedded_chunks, vectors, upserted, ingest_pc>>

VARIABLES
    q_pc,                 \* concurrent queries: where each process_query stands
    frames,               \* concurrent queries: the locals of the calls
    seen,                 \* concurrent queries: what each query's tiers met
    q_result,             \* concurrent queries: what each process_query worked with
    events                \* concurrent queries: calls and returns in order

concurrent_vars == <<q_pc, frames, seen, q_result, events>>

vars == <<retrieval_vars, normalizer_vars, confidence_vars, rag_vars, chunker_vars,
          ingest_vars, concurrent_vars>>

\* the variables outside each component
beside_retrieval == <<normalizer_vars, confidence_vars, rag_vars, chunker_vars,
    ingest_vars, concurrent_vars>>
beside_normalizer == <<retrieval_vars, confidence_vars, rag_vars, chunker_vars,
    ingest_vars, concurrent_vars>>
beside_confidence == <<retrieval_vars, normalizer_vars, rag_vars, chunker_vars,
    ingest_vars, concurrent_vars>>
beside_rag == <<retrieval_vars, normalizer_vars, chunker_vars,
    ingest_vars, concurrent_vars>>
beside_chunker == <<retrieval_vars, normalizer_vars, confidence_vars, rag_vars,
    ingest_vars, concurrent_vars>>

NormalizerParked ==
    /\ raw_query = <<>>
    /\ passes = <<>>

ConfidenceParked ==
    /\ retrieved_docs = <<>>
    /\ llm_metadata = None
    /\ confidence = <<>>

\* MetricsCollector.__init__: nothing recorded yet
MetricsCollectorInit ==
    [total_queries |-> 0, queries_with_context |-> 0, tier1_success |-> 0,
     tier2_success |-> 0, no_context |-> 0, query_metrics |-> <<>>,
     failed_queries |-> <<>>]

RagParked ==
    /\ rag_pc = "idle"
    /\ chat_request = None
    /\ retrieval_available = TRUE
    /\ llm_available = TRUE
    /\ tier_used = None
    /\ generated_answer = None
    /\ generate_calls = 0
    /\ metrics_collector = MetricsCollectorInit
    /\ metrics_file = <<>>
    /\ write_failed = FALSE
    /\ retrieve_calls = <<>>
    /\ failure = "none"
    /\ response = None

ChunkerParked ==
    /\ chunker = None
    /\ document = None
    /\ strategy = None
    /\ chunks = <<>>
    /\ chunk_docs = <<>>
    /\ chunk_pc = "idle"

ConcurrentParked ==
    /\ q_pc = <<>>
    /\ frames = <<>>
    /\ seen = <<>>
    /\ q_result = <<>>
    /\ events = <<>>

IngestParked ==
    /\ ingest_document = None
    /\ chunk_list = <<>>
    /\ created_chunks = <<>>
    /\ batch_size = 0
    /\ loop_index = 0
    /\ tasks = {}
    /\ completion_log = <<>>
    /\ embedded_chunks = <<>>
    /\ vectors = <<>>
    /\ upserted = <<>>
    /\ ingest_pc = "idle"

\* the arguments of the running retrieve_documents call
CurrentCall == calls[Len(calls)]

\* the locals of retrieve_documents are gone when the call is left
FrameCleared ==
    /\ preprocessed_query' = None
    /\ attempt_number' = 0
    /\ query_embedding' = None
    /\ results' = <<>>
    /\ documents' = <<>>

RetrievalInit ==
    /\ openai_client \in BOOLEAN
    /\ pinecone_client \in BOOLEAN
    /\ index = FALSE
    /\ _index_initialized = FALSE
    /\ settings \in SettingsChoices
    /\ pc = "idle"
    /\ query = None
    /\ category_filter = None
    /\ tier = 0
    /\ calls = <<>>
    /\ status = [t \in 1..2 |-> "not_started"]
    /\ cause = [t \in 1..2 |-> "none"]
    /\ preprocessed_query = None
    /\ attempt_number = 0
    /\ query_embedding = None
    /\ results = <<>>
    /\ documents = <<>>
    /\ tier1_docs = <<>>
    /\ tier2_docs = <<>>
    /\ embed_log = <<>>
    /\ index_log = <<>>
    /\ outcome = NoOutcome

\* a service that is constructed and never called
RetrievalParked ==
    /\ RetrievalInit
    /\ openai_client
    /\ pinecone_client
    /\ settings = [rag_tier1_top_k |-> Tier1TopKDefault,
                   rag_tier2_top_k |-> Tier2TopKDefault]

Init ==
    /\ RetrievalInit
    /\ NormalizerParked
    /\ ConfidenceParked
    /\ RagParked
    /\ ChunkerParked
    /\ IngestParked
    /\ ConcurrentParked

(***************************************************************************)
(* retrieve_with_fallback                                                   *)
(***************************************************************************)
\* the caller awaits retrieve_with_fallback(query, category_filter); the
\* tier-1 call of retrieve_documents is entered
CallRetrieveWithFallback ==
    /\ pc = "idle"
    /\ \E q \in Queries, c \in Categories :
        /\ query' = q
        /\ category_filter' = c
        /\ calls' = <<Tier1Call(q, c, settings)>>
    /\ tier' = 1
    /\ status' = [status EXCEPT ![1] = "running"]
    /\ pc' = "retrieve_documents"
    /\ UNCHANGED <<service, cause, outcome, tier1_docs, tier2_docs, frame, logs>>
    /\ UNCHANGED beside_retrieval

\* retrieve_documents raised: the except block of the running tier.  Tier 1
\* logs a warning and falls through to the tier-2 call; tier 2 returns
\* ([], "no_context").
ExceptBlock(why) ==
    /\ cause' = [cause EXCEPT ![tier] = why]
    /\ FrameCleared
    /\ IF tier = 1
       THEN /\ status' = [status EXCEPT ![1] = "failed", ![2] = "running"]
            /\ tier' = 2
            /\ calls' = Append(calls, Tier2Call(query, category_filter, settings))
            /\ pc' = "retrieve_documents"
            /\ UNCHANGED <<outcome, tier1_docs, tier2_docs>>
       ELSE /\ status' = [status EXCEPT ![2] = "failed"]
            /\ outcome' = Tier2ExceptReturn(tier1_docs)
            /\ pc' = "done"
            /\ UNCHANGED <<tier, calls, tier1_docs, tier2_docs>>

\* _ensure_index_connection: pinecone_client.Index(...) raises, the error is
\* logged and raised again
EnsureIndexConnectionFails ==
    /\ pc = "retrieve_documents"
    /\ ~_index_initialized
    /\ pinecone_client
    /\ ExceptBlock("connection")
    /\ UNCHANGED <<service, logs, request>>
    /\ UNCHANGED beside_retrieval

\* retrieve_documents: no index after _ensure_index_connection, ValueError
RetrieveDocumentsNotConfigured ==
    /\ pc = "retrieve_documents"
    /\ ~pinecone_client \/ (_index_initialized /\ ~index)
    /\ ExceptBlock("configuration")
    /\ UNCHANGED <<service, logs, request>>
    /\ UNCHANGED beside_retrieval

\* _ensure_index_connection leaves retrieve_documents with an index: there
\* is a client, and the connection is made now or was made before
IndexReady ==
    /\ pinecone_client
    /\ _index_initialized => index

\* retrieve_documents: the index is connected (now or before), the query is
\* preprocessed and generate_embedding is called
RetrieveDocumentsBegin ==
    /\ pc = "retrieve_documents"
    /\ IndexReady
    /\ index' = TRUE
    /\ _index_initialized' = TRUE
    /\ preprocessed_query' = preprocess(CurrentCall.query)
    /\ attempt_number' = 0
    /\ pc' = "generate_embedding"
    /\ UNCHANGED <<openai_client, pinecone_client, settings, tier, calls, status,
                   cause, outcome, tier1_docs, tier2_docs, query_embedding,
                   results, documents, logs, request>>
    /\ UNCHANGED beside_retrieval

\* one attempt of generate_embedding is made with the text it was called with
EmbeddingAttempted ==
    /\ attempt_number' = attempt_number + 1
    /\ embed_log' = Append(embed_log, [tier |-> tier, text |-> preprocessed_query])

\* generate_embedding: the embeddings call answers
EmbeddingSucceeds ==
    /\ pc = "generate_embedding"
    /\ openai_client
    /\ EmbeddingAttempted
    /\ query_embedding' = Embedding(preprocessed_query)
    /\ pc' = "index_query"
    /\ UNCHANGED <<service, tier, calls, status, cause, outcome, tier1_docs,
                   tier2_docs, preprocessed_query, results, documents,
                   index_log, request>>
    /\ UNCHANGED beside_retrieval

\* generate_embedding raises (ValueError without a client, or the embeddings
\* call failed) and the retry decorator makes another attempt
EmbeddingFailsAndRetries ==
    /\ pc = "generate_embedding"
    /\ ~stop_after_attempt(attempt_number + 1)
    /\ EmbeddingAttempted
    /\ UNCHANGED <<service, control, preprocessed_query, query_embedding,
                   results, documents, index_log, request>>
    /\ UNCHANGED beside_retrieval

\* generate_embedding raises on the last attempt: reraise=True
EmbeddingFailsAndReraises ==
    /\ pc = "generate_embedding"
    /\ stop_after_attempt(attempt_number + 1)
    /\ embed_log' = Append(embed_log, [tier |-> tier, text |-> preprocessed_query])
    /\ ExceptBlock(IF openai_client THEN "embedding" ELSE "configuration")
    /\ UNCHANGED <<service, index_log, request>>
    /\ UNCHANGED beside_retrieval

\* the record of one index.query
IndexQueried ==
    index_log' = Append(index_log,
                        [tier |-> tier, vector |-> query_embedding,
                         top_k |-> CurrentCall.top_k,
                         filter |-> IndexFilter(CurrentCall.category_filter)])

\* index.query answers; the matches are filtered by the threshold and reranked
IndexQueryReturns ==
    /\ pc = "index_query"
    /\ IndexQueried
    /\ \E matches \in Responses(CurrentCall.top_k) :
        /\ results' = matches
        /\ documents' = _rerank_documents(
                            FilterByThreshold(matches, CurrentCall.min_score))
    /\ pc' = "return_documents"
    /\ UNCHANGED <<service, tier, calls, status, cause, outcome, tier1_docs,
                   tier2_docs, preprocessed_query, attempt_number,
                   query_embedding, embed_log, request>>
    /\ UNCHANGED beside_retrieval

\* index.query raises: logged and raised again by retrieve_documents
IndexQueryFails ==
    /\ pc = "index_query"
    /\ IndexQueried
    /\ ExceptBlock("index")
    /\ UNCHANGED <<service, embed_log, request>>
    /\ UNCHANGED beside_retrieval

\* tier 1 returned at least 2 documents: return tier1_docs, "tier1"
Tier1Succeeds ==
    /\ pc = "return_documents"
    /\ tier = 1
    /\ Tier1Sufficient(documents)
    /\ tier1_docs' = documents
    /\ status' = [status EXCEPT ![1] = "returned"]
    /\ outcome' = Return(documents, "tier1")
    /\ pc' = "done"
    /\ FrameCleared
    /\ UNCHANGED <<service, tier, calls, cause, tier2_docs, logs, request>>
    /\ UNCHANGED beside_retrieval

\* tier 1 returned fewer documents: the tier-2 call is entered
Tier1Insufficient ==
    /\ pc = "return_documents"
    /\ tier = 1
    /\ ~Tier1Sufficient(documents)
    /\ tier1_docs' = documents
    /\ status' = [status EXCEPT ![1] = "returned", ![2] = "running"]
    /\ tier' = 2
    /\ calls' = Append(calls, Tier2Call(query, category_filter, settings))
    /\ pc' = "retrieve_documents"
    /\ FrameCleared
    /\ UNCHANGED <<service, cause, outcome, tier2_docs, logs, request>>
    /\ UNCHANGED beside_retrieval

\* tier 2 returned: tier2_docs if there are any, else no_context
Tier2Returns ==
    /\ pc = "return_documents"
    /\ tier = 2
    /\ tier2_docs' = documents
    /\ status' = [status EXCEPT ![2] = "returned"]
    /\ outcome' = Tier2Return(documents)
    /\ pc' = "done"
    /\ FrameCleared
    /\ UNCHANGED <<service, tier, calls, cause, tier1_docs, logs, request>>
    /\ UNCHANGED beside_retrieval

\* the caller has its answer; the service object lives on for the next query
NextQuery ==
    /\ pc = "done"
    /\ pc' = "idle"
    /\ query' = None
    /\ category_filter' = None
    /\ tier' = 0
    /\ calls' = <<>>
    /\ status' = [t \in 1..2 |-> "not_started"]
    /\ cause' = [t \in 1..2 |-> "none"]
    /\ tier1_docs' = <<>>
    /\ tier2_docs' = <<>>
    /\ embed_log' = <<>>
    /\ index_log' = <<>>
    /\ outcome' = NoOutcome
    /\ UNCHANGED <<service, frame>>
    /\ UNCHANGED beside_retrieval

Next ==
    \/ CallRetrieveWithFallback
    \/ EnsureIndexConnectionFails
    \/ RetrieveDocumentsNotConfigured
    \/ RetrieveDocumentsBegin
    \/ EmbeddingSucceeds
    \/ EmbeddingFailsAndRetries
    \/ EmbeddingFailsAndReraises
    \/ IndexQueryReturns
    \/ IndexQueryFails
    \/ Tier1Succeeds
    \/ Tier1Insufficient
    \/ Tier2Returns
    \/ NextQuery

Spec == Init /\ [][Next]_vars

TypeOK ==
    /\ pc \in {"idle", "retrieve_documents", "generate_embedding", "index_query",
               "return_documents", "done"}
    /\ tier \in 0..2
    /\ attempt_number \in 0..MaxEmbeddingAttempts
    /\ outcome.kind \in {"none", "return", "raise"}

(***************************************************************************)
(* Properties of retrieve_with_fallback and retrieve_documents              *)
(***************************************************************************)
TierLabels == {"tier1", "tier2", "no_context"}

\* number of entries of a log that belong to tier t
CountTier(log, t) == Cardinality({i \in 1..Len(log) : log[i].tier = t})

\* the entries of a log never go back from tier 2 to tier 1
TierOrdered(log) ==
    \A i \in 1..Len(log) : \A j \in i..Len(log) : log[i].tier <= log[j].tier

\* C1: the tier-1 attempt comes before any tier-2 attempt; a tier-2 attempt
\* exists only once tier 1 has returned fewer than 2 documents or has raised,
\* never while the outcome of tier 1 is unknown.
C1_TierMonotonicity ==
    /\ status[2] # "not_started" =>
          \/ status[1] = "failed"
          \/ status[1] = "returned" /\ Len(tier1_docs) < 2
    /\ status[1] = "not_started" => calls = <<>> /\ embed_log = <<>> /\ index_log = <<>>
    /\ status[1] = "running" =>
          /\ Len(calls) = 1
          /\ CountTier(embed_log, 2) = 0
          /\ CountTier(index_log, 2) = 0
    /\ Len(calls) >= 1 => calls[1].min_score = Tier1Threshold
    /\ TierOrdered(embed_log)
    /\ TierOrdered(index_log)

\* C1 witness: tier 2 has queried the index after tier 1 returned one document
C1_Witness ==
    /\ pc = "return_documents"
    /\ tier = 2
    /\ status[1] = "returned"
    /\ Len(tier1_docs) = 1
    /\ CountTier(index_log, 1) = 1
    /\ CountTier(index_log, 2) = 1

\* C2: when both tiers returned no qualifying document, the call returns
\* exactly ([], "no_context") and does not raise.
C2_NoContextGuarantee ==
    (/\ pc = "done"
     /\ status[1] = "returned" /\ tier1_docs = <<>>
     /\ status[2] = "returned" /\ tier2_docs = <<>>)
    => outcome = Return(<<>>, "no_context")

\* C2 witness: both tiers queried the index and kept nothing
C2_Witness ==
    /\ pc = "done"
    /\ status[1] = "returned" /\ tier1_docs = <<>>
    /\ status[2] = "returned" /\ tier2_docs = <<>>
    /\ Len(index_log) = 2

\* C3: the label of a returned pair fits its documents: "tier1" comes with the
\* tier-1 result of at least 2 documents, "tier2" with the tier-2 result of at
\* least 1 document, "no_context" exactly with the empty list; one qualifying
\* tier-1 document never gives "tier1".
C3_LabelMatchesDocuments ==
    pc = "done" =>
        /\ outcome.kind = "return"
        /\ outcome.tier \in TierLabels
        /\ outcome.tier = "tier1" =>
              /\ status[1] = "returned"
              /\ status[2] = "not_started"
              /\ outcome.docs = tier1_docs
              /\ Len(outcome.docs) >= 2
        /\ outcome.tier = "tier2" =>
              /\ status[2] = "returned"
              /\ outcome.docs = tier2_docs
              /\ Len(outcome.docs) >= 1
        /\ outcome.tier = "no_context" <=> outcome.docs = <<>>
        /\ (status[1] = "returned" /\ Len(tier1_docs) = 1) => outcome.tier # "tier1"

\* C3 witness: tier 1 kept exactly one document and the call ended on tier 2
C3_Witness ==
    /\ pc = "done"
    /\ status[1] = "returned"
    /\ Len(tier1_docs) = 1
    /\ outcome.tier = "tier2"
    /\ Len(outcome.docs) >= 1

\* C4: a failure of the embedding step or of the index step in tier 1 is not
\* propagated; it is followed by a tier-2 attempt with the tier-2 threshold
\* and top_k and with the same query and category filter.
C4_Tier1FailureFallsThrough ==
    cause[1] \in {"embedding", "index"} =>
        /\ outcome.kind # "raise"
        /\ status[2] # "not_started"
        /\ Len(calls) = 2
        /\ calls[2] = [query |-> query,
                       top_k |-> settings.rag_tier2_top_k,
                       category_filter |-> category_filter,
                       min_score |-> Tier2Threshold]
        /\ LET normalized == preprocess(query)
           IN /\ \A i \in 1..Len(embed_log) :
                    embed_log[i].tier = 2 => embed_log[i].text = normalized
              /\ \A i \in 1..Len(index_log) :
                    index_log[i].tier = 2 =>
                        /\ index_log[i].top_k = settings.rag_tier2_top_k
                        /\ index_log[i].filter = IndexFilter(category_filter)
                        /\ index_log[i].vector = Embedding(normalized)
        /\ pc = "return_documents" =>
              \A i \in 1..Len(documents) : documents[i].score >= Tier2Threshold

\* C4 witness: the tier-1 index query raised and tier 2 then found documents
C4_Witness ==
    /\ pc = "done"
    /\ cause[1] = "index"
    /\ category_filter # None
    /\ outcome.tier = "tier2"

C6_ConfigurationErrorSurfaced ==
    (~openai_client \/ ~pinecone_client) =>
        /\ pc = "done" => outcome.kind = "raise"
        /\ Len(embed_log) <= 1
        /\ status[2] = "not_started"

\* C7: in one tier attempt generate_embedding is attempted at most 3 times,
\* always with the preprocessed query, and a tier fails on embedding only
\* after the 3rd attempt failed.
C7_EmbeddingRetryBudget ==
    /\ \A t \in 1..2 : CountTier(embed_log, t) <= 3
    /\ embed_log # <<>> =>
          LET normalized == preprocess(query)
          IN \A i \in 1..Len(embed_log) : embed_log[i].text = normalized
    /\ \A t \in 1..2 :
          (status[t] = "failed" /\ cause[t] \notin {"connection", "index"}
             /\ CountTier(embed_log, t) > 0)
          => CountTier(embed_log, t) = 3
    /\ pc = "generate_embedding" =>
          /\ attempt_number = CountTier(embed_log, tier)
          /\ attempt_number < 3

\* C7 witness: tier 1 failed after 3 embedding attempts and tier 2 is in its
\* 3rd attempt
C7_Witness ==
    /\ cause[1] = "embedding"
    /\ CountTier(embed_log, 1) = 3
    /\ pc = "generate_embedding"
    /\ tier = 2
    /\ attempt_number = 2
    /\ preprocess(query) # query

\* C8: an index query that fails is tried again before the tier is treated as
\* failed: a tier that failed on the index has queried it more than once.
C8_IndexQueryRetried ==
    \A t \in 1..2 : cause[t] = "index" => CountTier(index_log, t) >= 2

\* the ids of the documents of a list
Ids(docs) == {docs[i].id : i \in 1..Len(docs)}

\* positions of the index's answer whose score reaches the threshold
Passing(matches, threshold) ==
    {i \in 1..Len(matches) : matches[i].score >= threshold}

\* C9: every document a tier attempt returns has a score of at least the
\* tier's threshold, a match at the threshold is kept, one below is dropped,
\* and there are never more documents than top_k.
C9_ThresholdAndTopK ==
    pc = "return_documents" =>
        /\ \A i \in 1..Len(documents) : documents[i].score >= CurrentCall.min_score
        /\ \A i \in 1..Len(results) :
              results[i].score = CurrentCall.min_score => results[i].id \in Ids(documents)
        /\ \A i \in 1..Len(results) :
              results[i].score < CurrentCall.min_score => results[i].id \notin Ids(documents)
        /\ Len(results) <= CurrentCall.top_k => Len(documents) <= CurrentCall.top_k

\* C9 witness: an answer with a match at the threshold, which is kept, and
\* one below it, which is dropped
C9_Witness ==
    /\ pc = "return_documents"
    /\ \E i \in 1..Len(documents) : documents[i].score = CurrentCall.min_score
    /\ \E i \in 1..Len(results) : results[i].score < CurrentCall.min_score
    /\ Len(documents) < Len(results)

MaxQueryLen == 5

\* characters of the raw queries
QueryChars == {" ", "a", "n", "r", ".", "?"}

RawQueries == UNION { [1..n -> QueryChars] : n \in 0..MaxQueryLen }

NormalizerInit ==
    /\ raw_query \in RawQueries
    /\ passes = <<>>
    /\ RetrievalParked
    /\ ConfidenceParked
    /\ RagParked
    /\ ChunkerParked
    /\ IngestParked
    /\ ConcurrentParked

\* preprocess(query)
PreprocessQuery ==
    /\ passes = <<>>
    /\ passes' = <<preprocess(raw_query)>>
    /\ UNCHANGED raw_query
    /\ UNCHANGED beside_normalizer

\* preprocess(preprocess(query)): the result is preprocessed once more
PreprocessAgain ==
    /\ Len(passes) = 1
    /\ passes' = Append(passes, preprocess(passes[1]))
    /\ UNCHANGED raw_query
    /\ UNCHANGED beside_normalizer

NormalizerNext ==
    \/ PreprocessQuery
    \/ PreprocessAgain

NormalizerSpec == NormalizerInit /\ [][NormalizerNext]_vars

\* C20: preprocessing is idempotent: preprocessing the result of preprocess
\* gives that result back, also for queries that end in several groups of
\* punctuation or hold abbreviations.
C20_PreprocessIdempotent ==
    Len(passes) = 2 => passes[2] = passes[1]

\* what a step of a running call changes: every step changes pc or attempt_number
progress == <<pc, attempt_number>>

\* a call of retrieve_with_fallback is under way
CallRunning == pc \notin {"idle", "done"}

\* the steps a running call can still take at most: the stages of the tier
\* it is in (attempts left, index query, return), and all of tier 2 while it
\* is in tier 1
StepsLeft ==
    IF ~CallRunning THEN 0
    ELSE (IF tier = 1 THEN 10 ELSE 0)
         + (IF pc = "retrieve_documents" THEN 6
            ELSE IF pc = "generate_embedding" THEN 5 - attempt_number
            ELSE IF pc = "index_query" THEN 2
            ELSE 1)

\* a running call has a step to take at the stage it is in
CallCanStep ==
    /\ pc = "retrieve_documents" =>
          \/ IndexReady
          \/ ENABLED EnsureIndexConnectionFails
          \/ ENABLED RetrieveDocumentsNotConfigured
    /\ pc = "generate_embedding" =>
          ENABLED (EmbeddingFailsAndRetries \/ EmbeddingFailsAndReraises)
    /\ pc = "index_query" => ENABLED IndexQueryFails
    /\ pc = "return_documents" =>
          ENABLED (Tier1Succeeds \/ Tier1Insufficient \/ Tier2Returns)

MaxConfidenceDocs == 6

\* scores of the documents handed to _calculate_confidence: retrieval returns
\* none below the tier-2 threshold
ConfidenceScores == {Tier2Threshold, 51, Tier1Threshold, 100}

\* finish_reason of the generation; "" stands for metadata without the key
FinishReasons == {"stop", "length", ""}

\* document lists as retrieval returns them: ids and non-increasing scores
ConfidenceInputs ==
    UNION { { [i \in 1..n |-> [id |-> i, score |-> f[i]]] :
              f \in { g \in [1..n -> ConfidenceScores] :
                        \A i \in 1..n : \A j \in i..n : g[i] >= g[j] } } :
            n \in 0..MaxConfidenceDocs }

\* sum(doc["score"] for doc in retrieved_docs), in hundredths
RECURSIVE SumScores(_)
SumScores(docs) ==
    IF docs = <<>> THEN 0 ELSE Head(docs).score + SumScores(Tail(docs))

\* min(len(retrieved_docs) / 5, 1.0) * 0.2, in thousandths
NumDocsTerm(n) == 40 * Min(n, 5)

\* (1.0 if finish_reason == "stop" else 0.8) * 0.2, in thousandths
CompletenessTermAlwaysComplete(metadata) == 200
CompletenessTerm(metadata) == IF metadata.finish_reason = "stop" THEN 200 ELSE 160

\* round(x, 3) of the fraction num/den of thousandths.  A value that lies
\* exactly between two thousandths is not exact as a float, so either
\* neighbour can come out: the result is the set of values round can give.
Round3(num, den) ==
    LET low == num \div den
        rest == num % den
    IN IF 2 * rest < den THEN {low}
       ELSE IF 2 * rest > den THEN {low + 1}
       ELSE {low, low + 1}

\* the guard protects only the average: avg_score = 0 without documents
_calculate_confidence_no_guard(docs, metadata) ==
    LET n == Len(docs)
        numerator == 6 * SumScores(docs) + n * (NumDocsTerm(n) + CompletenessTerm(metadata))
    IN IF n = 0 THEN {NumDocsTerm(0) + CompletenessTerm(metadata)}
       ELSE Round3(Min(numerator, 1000 * n), n)

\* _calculate_confidence: the values it can return
_calculate_confidence(docs, metadata) ==
    IF docs = <<>> THEN {0}
    ELSE LET n == Len(docs)
             \* avg_score * 0.6 + num_docs_factor * 0.2 + completeness_factor * 0.2
             numerator == 6 * SumScores(docs)
                          + n * (NumDocsTerm(n) + CompletenessTerm(metadata))
         \* round(min(confidence, 1.0), 3)
         IN Round3(Min(numerator, 1000 * n), n)

ConfidenceInit ==
    /\ retrieved_docs \in ConfidenceInputs
    /\ llm_metadata \in [finish_reason : FinishReasons]
    /\ confidence = <<>>
    /\ RetrievalParked
    /\ NormalizerParked
    /\ RagParked
    /\ ChunkerParked
    /\ IngestParked
    /\ ConcurrentParked

\* confidence = self._calculate_confidence(retrieved_docs, llm_metadata)
CalculateConfidence ==
    /\ confidence = <<>>
    /\ \E value \in _calculate_confidence(retrieved_docs, llm_metadata) :
           confidence' = <<value>>
    /\ UNCHANGED <<retrieved_docs, llm_metadata>>
    /\ UNCHANGED beside_confidence

ConfidenceNext == CalculateConfidence

ConfidenceSpec == ConfidenceInit /\ [][ConfidenceNext]_vars

\* C13: for every document list and every generation metadata the confidence
\* lies between 0.0 and 1.0, and it is exactly 0.0 for the empty list.
C13_ConfidenceBounds ==
    confidence # <<>> =>
        /\ confidence[1] >= 0
        /\ confidence[1] <= 1000
        /\ retrieved_docs = <<>> => confidence[1] = 0

\* C13 witness: the upper bound is reached by 5 or more documents of score 1.0
C13_Witness ==
    /\ confidence = <<1000>>
    /\ Len(retrieved_docs) >= 5
    /\ llm_metadata.finish_reason = "stop"

\* C14: for a non-empty list the confidence is avg_score*0.6 +
\* min(count/5, 1)*0.2 + completeness*0.2, clamped to [0, 1] and rounded to 3
\* decimals: completeness is 1.0 exactly for a generation that finished
\* normally, else 0.8, and the count term is the same from 5 documents on.
C14_ConfidenceFormula ==
    (confidence # <<>> /\ retrieved_docs # <<>>) =>
        LET n == Len(retrieved_docs)
            total == SumScores(retrieved_docs)
            coverage == IF n >= 5 THEN 200 ELSE 40 * n
            completeness == IF llm_metadata.finish_reason = "stop" THEN 200 ELSE 160
            exact == 6 * total + n * (coverage + completeness)
            clamped == IF exact > 1000 * n THEN 1000 * n
                       ELSE IF exact < 0 THEN 0 ELSE exact
            distance == IF confidence[1] * n >= clamped
                        THEN confidence[1] * n - clamped
                        ELSE clamped - confidence[1] * n
        IN 2 * distance <= n

\* C14 witness: more than 5 documents and a truncated generation
C14_Witness ==
    /\ confidence # <<>>
    /\ Len(retrieved_docs) > 5
    /\ llm_metadata.finish_reason = "length"
    /\ retrieved_docs[1].score > retrieved_docs[Len(retrieved_docs)].score

(***************************************************************************)
(* RAGService.process_query and MetricsCollector.log_query                  *)
(*                                                                           *)
(* The retrieval call is taken as one step here: its result is computed     *)
(* from what the index answers to the two tiers (or from their failure),    *)
(* with the operators of retrieve_with_fallback above.                      *)
(***************************************************************************)
\* ChatRequest.top_k: absent (<<>>) or a number from 1 on
RequestTopKs == {<<>>, <<1>>, <<2>>}

ChatRequests == [query : Queries, category_filter : Categories, top_k : RequestTopKs]

\* the settings process_query runs under
RagSettings ==
    [rag_tier1_top_k |-> Tier1TopKDefault, rag_tier2_top_k |-> Tier2TopKDefault]

\* what a retrieve_documents call meets: an exception of the embedding or of
\* the index, or the matches of the index
IndexAnswers(k) ==
    {[raised |-> TRUE, matches |-> <<>>]}
        \cup {[raised |-> FALSE, matches |-> m] : m \in Responses(k)}

\* the documents retrieve_documents returns for an answer of the index
TierDocuments(answer, threshold) ==
    _rerank_documents(FilterByThreshold(answer.matches, threshold))

\* retrieve_with_fallback as a function of what the two tiers meet
retrieve_with_fallback(answer1, answer2) ==
    LET t1docs == IF answer1.raised THEN <<>>
                  ELSE TierDocuments(answer1, Tier1Threshold)
    IN IF ~answer1.raised /\ Tier1Sufficient(t1docs)
       THEN Return(t1docs, "tier1")
       ELSE IF answer2.raised
            THEN Tier2ExceptReturn(t1docs)
            ELSE Tier2Return(TierDocuments(answer2, Tier2Threshold))

\* finish_reason values the completion API reports
GenerationFinishReasons == {"stop", "length", "content_filter"}

\* texts the language model answers with
GeneratedAnswers == {"answer A", "answer B"}

\* doc.get("category"): document 1 is stored with a category, the others with none
DocCategory(id) == IF id = 1 THEN "immigration" ELSE None

\* _format_sources: citations numbered from 1, relevance_score in thousandths
_format_sources(docs) ==
    [i \in 1..Len(docs) |->
        [id |-> i, relevance_score |-> 10 * docs[i].score,
         category |-> DocCategory(docs[i].id)]]

\* _detect_category
_detect_category(docs, requested_category) ==
    IF requested_category # None THEN requested_category
    ELSE IF docs # <<>> THEN DocCategory(docs[1].id)
    ELSE None

\* the messages of the error responses
KnowledgeBaseUnavailable == "The knowledge base is not currently available."
GenerationUnavailable == "The response generation service is not currently available."
ProcessingError == "An error occurred while processing your query."

\* the answer of _create_no_context_response
NoContextAnswer == "I apologize, but I couldn't find relevant information in my knowledge base"

\* ChatResponse(answer, sources, confidence, category); confidence in thousandths
ChatResponse(answer, sources, value, category) ==
    [answer |-> answer, sources |-> sources, confidence |-> value,
     category |-> category]

\* _create_error_response
_create_error_response(error_message) ==
    ChatResponse(<<"I apologize, but I encountered an issue: ", error_message>>,
                 <<>>, 0, None)

\* _create_no_context_response
_create_no_context_response == ChatResponse(<<NoContextAnswer>>, <<>>, 0, None)

\* if not await self.llm_service.check_availability(): return the error response
LlmAvailabilityUnchecked(available) == TRUE
LlmAvailabilityChecked(available) == available

\* the handlers except ValueError and except Exception of process_query
ExceptHandlerReraises(error_message) == [raised |-> error_message]
ExceptHandler(error_message) == _create_error_response(error_message)

\* if not retrieved_docs
NoRelevantDocumentsNever(docs) == FALSE
NoRelevantDocuments(docs) == docs = <<>>

\* _append_to_file: the write, when it raises, is logged and swallowed
_append_to_file_unguarded(file, metric, write_ok) ==
    [file |-> IF write_ok THEN Append(file, metric) ELSE file,
     raised |-> ~write_ok]
_append_to_file(file, metric, write_ok) ==
    [file |-> IF write_ok THEN Append(file, metric) ELSE file,
     raised |-> FALSE]

\* log_query without self.query_metrics.append(metric)
log_query_counters_only(collector, file, q, label, docs, category, value, write_ok) ==
    LET num_docs == Len(docs)
        metric == [query |-> q, tier_used |-> label,
                   documents_retrieved |-> num_docs, category |-> category,
                   confidence |-> value, response_generated |-> num_docs > 0]
        counted ==
            [total_queries |-> collector.total_queries + 1,
             queries_with_context |->
                 collector.queries_with_context + (IF num_docs > 0 THEN 1 ELSE 0),
             tier1_success |->
                 collector.tier1_success + (IF label = "tier1" THEN 1 ELSE 0),
             tier2_success |->
                 collector.tier2_success + (IF label = "tier2" THEN 1 ELSE 0),
             no_context |->
                 collector.no_context
                     + (IF label \notin {"tier1", "tier2"} THEN 1 ELSE 0),
             failed_queries |->
                 IF label \notin {"tier1", "tier2"}
                 THEN Append(collector.failed_queries, [query |-> q, error |-> None])
                 ELSE collector.failed_queries,
             query_metrics |-> collector.query_metrics]
        written == _append_to_file(file, metric, write_ok)
    IN [collector |-> counted, file |-> written.file, raised |-> written.raised]

\* log_query: counters, the query metric, then the file (get_metrics_collector
\* always configures one).  Of QueryMetrics the fields that come from
\* process_query's arguments are kept.
log_query(collector, file, q, label, docs, category, value, write_ok) ==
    LET num_docs == Len(docs)
        metric == [query |-> q, tier_used |-> label,
                   documents_retrieved |-> num_docs, category |-> category,
                   confidence |-> value, response_generated |-> num_docs > 0]
        counted ==
            [total_queries |-> collector.total_queries + 1,
             queries_with_context |->
                 collector.queries_with_context + (IF num_docs > 0 THEN 1 ELSE 0),
             tier1_success |->
                 collector.tier1_success + (IF label = "tier1" THEN 1 ELSE 0),
             tier2_success |->
                 collector.tier2_success + (IF label = "tier2" THEN 1 ELSE 0),
             no_context |->
                 collector.no_context
                     + (IF label \notin {"tier1", "tier2"} THEN 1 ELSE 0),
             failed_queries |->
                 IF label \notin {"tier1", "tier2"}
                 THEN Append(collector.failed_queries, [query |-> q, error |-> None])
                 ELSE collector.failed_queries,
             query_metrics |-> Append(collector.query_metrics, metric)]
        written == _append_to_file(file, metric, write_ok)
    IN [collector |-> counted, file |-> written.file, raised |-> written.raised]

RagInit ==
    /\ rag_pc = "start"
    /\ chat_request \in ChatRequests
    /\ retrieval_available \in BOOLEAN
    /\ llm_available \in BOOLEAN
    /\ tier_used = None
    /\ generated_answer = None
    /\ generate_calls = 0
    /\ metrics_collector = MetricsCollectorInit
    /\ metrics_file = <<>>
    /\ write_failed = FALSE
    /\ retrieve_calls = <<>>
    /\ failure = "none"
    /\ response = None
    /\ retrieved_docs = <<>>
    /\ llm_metadata = None
    /\ confidence = <<>>
    /\ RetrievalParked
    /\ NormalizerParked
    /\ ChunkerParked
    /\ IngestParked
    /\ ConcurrentParked

\* log_query is called inside the try block of process_query: an exception
\* leaving it ends in the except Exception handler
LogThenReturn(label, docs, category, value, normal_response) ==
    \E write_ok \in BOOLEAN :
        LET logged == log_query(metrics_collector, metrics_file, chat_request.query,
                                label, docs, category, value, write_ok)
        IN /\ metrics_collector' = logged.collector
           /\ metrics_file' = logged.file
           /\ write_failed' = ~write_ok
           /\ failure' = IF logged.raised THEN "metrics" ELSE "none"
           /\ response' = IF logged.raised
                          THEN ExceptHandler(ProcessingError)
                          ELSE normal_response

\* step 1: retrieval_service.check_availability() is false
RetrievalUnavailable ==
    /\ rag_pc = "start"
    /\ ~retrieval_available
    /\ response' = _create_error_response(KnowledgeBaseUnavailable)
    /\ failure' = "unavailable"
    /\ rag_pc' = "done"
    /\ UNCHANGED <<chat_request, retrieval_available, llm_available, tier_used,
                   generated_answer, generate_calls, metrics_collector,
                   metrics_file, write_failed, retrieve_calls>>
    /\ UNCHANGED confidence_vars
    /\ UNCHANGED beside_rag

\* step 1: llm_service.check_availability() is false
LlmUnavailable ==
    /\ rag_pc = "start"
    /\ retrieval_available
    /\ ~LlmAvailabilityChecked(llm_available)
    /\ response' = _create_error_response(GenerationUnavailable)
    /\ failure' = "unavailable"
    /\ rag_pc' = "done"
    /\ UNCHANGED <<chat_request, retrieval_available, llm_available, tier_used,
                   generated_answer, generate_calls, metrics_collector,
                   metrics_file, write_failed, retrieve_calls>>
    /\ UNCHANGED confidence_vars
    /\ UNCHANGED beside_rag

\* step 2: retrieved_docs, tier_used = await retrieve_with_fallback(...)
RetrieveWithFallbackReturns ==
    /\ rag_pc = "start"
    /\ retrieval_available
    /\ LlmAvailabilityChecked(llm_available)
    /\ retrieve_calls' = Append(retrieve_calls,
                                [query |-> chat_request.query,
                                 category_filter |-> chat_request.category_filter])
    /\ LET q == chat_request.query
           c == chat_request.category_filter
       IN \E answer1 \in IndexAnswers(Tier1Call(q, c, RagSettings).top_k),
             answer2 \in IndexAnswers(Tier2Call(q, c, RagSettings).top_k) :
            LET returned == retrieve_with_fallback(answer1, answer2)
            IN /\ retrieved_docs' = returned.docs
               /\ tier_used' = returned.tier
    /\ rag_pc' = "retrieved"
    /\ UNCHANGED <<chat_request, retrieval_available, llm_available,
                   generated_answer, generate_calls, metrics_collector,
                   metrics_file, write_failed, failure, response>>
    /\ UNCHANGED <<llm_metadata, confidence>>
    /\ UNCHANGED beside_rag

\* no documents: the query is logged as no_context and the no-information
\* response is returned without a call of the language model
NoContext ==
    /\ rag_pc = "retrieved"
    /\ NoRelevantDocuments(retrieved_docs)
    /\ LogThenReturn("no_context", <<>>, chat_request.category_filter, 0,
                     _create_no_context_response)
    /\ rag_pc' = "done"
    /\ UNCHANGED <<chat_request, retrieval_available, llm_available, tier_used,
                   generated_answer, generate_calls, retrieve_calls>>
    /\ UNCHANGED confidence_vars
    /\ UNCHANGED beside_rag

\* steps 3 to 6: the language model answers; sources, confidence and category
\* are computed, the query is logged and the response returned
GenerateResponseReturns ==
    /\ rag_pc = "retrieved"
    /\ ~NoRelevantDocuments(retrieved_docs)
    /\ generate_calls' = generate_calls + 1
    /\ \E text \in GeneratedAnswers, finish_reason \in GenerationFinishReasons :
        LET metadata == [finish_reason |-> finish_reason]
            category == _detect_category(retrieved_docs,
                                         chat_request.category_filter)
        IN /\ generated_answer' = text
           /\ llm_metadata' = metadata
           /\ \E value \in _calculate_confidence(retrieved_docs, metadata) :
                /\ confidence' = <<value>>
                /\ LogThenReturn(tier_used, retrieved_docs, category, value,
                                 ChatResponse(<<text>>,
                                              _format_sources(retrieved_docs),
                                              value, category))
    /\ rag_pc' = "done"
    /\ UNCHANGED <<chat_request, retrieval_available, llm_available, tier_used,
                   retrieve_calls>>
    /\ UNCHANGED retrieved_docs
    /\ UNCHANGED beside_rag

\* step 3: generate_response raises after its retries
GenerateResponseRaises ==
    /\ rag_pc = "retrieved"
    /\ ~NoRelevantDocuments(retrieved_docs)
    /\ generate_calls' = generate_calls + 1
    /\ response' = ExceptHandler(ProcessingError)
    /\ failure' = "generation"
    /\ rag_pc' = "done"
    /\ UNCHANGED <<chat_request, retrieval_available, llm_available, tier_used,
                   generated_answer, metrics_collector, metrics_file,
                   write_failed, retrieve_calls>>
    /\ UNCHANGED confidence_vars
    /\ UNCHANGED beside_rag

RagNext ==
    \/ RetrievalUnavailable
    \/ LlmUnavailable
    \/ RetrieveWithFallbackReturns
    \/ NoContext
    \/ GenerateResponseReturns
    \/ GenerateResponseRaises

RagSpec == RagInit /\ [][RagNext]_vars

\* C11: when retrieval reported the tier "no_context", process_query makes no
\* call of the language model, and what it returns is the no-information
\* response with no sources and confidence 0.0.
C11_NoGenerationWithoutContext ==
    tier_used = "no_context" =>
        /\ generate_calls = 0
        /\ rag_pc = "done" =>
            /\ response.answer = <<NoContextAnswer>>
            /\ response.sources = <<>>
            /\ response.confidence = 0

\* C11 witness: a query ended with the tier no_context and was logged as such
C11_Witness ==
    /\ rag_pc = "done"
    /\ tier_used = "no_context"
    /\ metrics_collector.no_context = 1
    /\ response = _create_no_context_response

\* C12: when the metric of a query could not be written, process_query returns
\* the response it returns when the write succeeds: the no-information
\* response without documents, else the generated answer with the sources
\* and the confidence computed from the documents.
C12_MetricsFailureKeepsResponse ==
    (rag_pc = "done" /\ write_failed) =>
        IF retrieved_docs = <<>>
        THEN response = ChatResponse(<<NoContextAnswer>>, <<>>, 0, None)
        ELSE /\ response.answer = <<generated_answer>>
             /\ response.sources = _format_sources(retrieved_docs)
             /\ response.confidence = confidence[1]
             /\ response.confidence \in _calculate_confidence(retrieved_docs, llm_metadata)

\* C12 witness: the write failed for a query that was answered from documents
C12_Witness ==
    /\ rag_pc = "done"
    /\ write_failed
    /\ retrieved_docs # <<>>
    /\ metrics_collector.total_queries = 1
    /\ metrics_file = <<>>
    /\ response.answer = <<generated_answer>>

(***************************************************************************)
(* MetricsCollector on its own: any sequence of log_query and reset_metrics *)
(***************************************************************************)
\* most queries logged between two resets, and most lines written to the file
MaxLoggedQueries == 3

\* the tier labels process_query logs
LoggedTiers == {"tier1", "tier2", "no_context"}

\* the document lists handed to log_query
LoggedDocuments == {<<>>, <<[id |-> 1, score |-> Tier1Threshold]>>}

\* reset_metrics that leaves failed_queries as it is
reset_metrics_keeps_failures(collector) ==
    [MetricsCollectorInit EXCEPT !.failed_queries = collector.failed_queries]

\* reset_metrics: every list cleared, every counter 0
reset_metrics(collector) == MetricsCollectorInit

\* what MetricsCollector does not touch
beside_metrics ==
    <<rag_pc, chat_request, retrieval_available, llm_available, tier_used,
      generated_answer, generate_calls, write_failed, retrieve_calls, failure,
      response, retrieval_vars, normalizer_vars, confidence_vars, chunker_vars,
      ingest_vars, concurrent_vars>>

MetricsInit ==
    /\ RagParked
    /\ RetrievalParked
    /\ NormalizerParked
    /\ ConfidenceParked
    /\ ChunkerParked
    /\ IngestParked
    /\ ConcurrentParked

\* log_query(query, tier, documents, category, confidence)
LogQuery ==
    /\ metrics_collector.total_queries < MaxLoggedQueries
    /\ Len(metrics_file) < MaxLoggedQueries
    /\ \E label \in LoggedTiers, docs \in LoggedDocuments, write_ok \in BOOLEAN :
        LET logged == log_query(metrics_collector, metrics_file,
                                <<"a">>, label, docs, None,
                                IF docs = <<>> THEN 0 ELSE 10 * Tier1Threshold,
                                write_ok)
        IN /\ metrics_collector' = logged.collector
           /\ metrics_file' = logged.file
    /\ UNCHANGED beside_metrics

\* reset_metrics()
ResetMetrics ==
    /\ metrics_collector' = reset_metrics(metrics_collector)
    /\ UNCHANGED metrics_file
    /\ UNCHANGED beside_metrics

MetricsNext ==
    \/ LogQuery
    \/ ResetMetrics

MetricsSpec == MetricsInit /\ [][MetricsNext]_vars

\* C27: after any sequence of log_query and reset_metrics calls the counters
\* agree: total_queries = tier1_success + tier2_success + no_context = number
\* of stored query metrics, the failed queries are as many as no_context, and
\* queries_with_context is at most total_queries.
C27_CountersAgree ==
    /\ metrics_collector.total_queries
         = metrics_collector.tier1_success + metrics_collector.tier2_success
           + metrics_collector.no_context
    /\ metrics_collector.total_queries = Len(metrics_collector.query_metrics)
    /\ Len(metrics_collector.failed_queries) = metrics_collector.no_context
    /\ metrics_collector.queries_with_context <= metrics_collector.total_queries

\* C27 witness: two queries were written to the file, the metrics were reset,
\* and one no_context query was logged since
C27_Witness ==
    /\ Len(metrics_file) = 2
    /\ metrics_collector.total_queries = 1
    /\ metrics_collector.no_context = 1
    /\ metrics_collector.queries_with_context = 0

C26_RequestTopKHonoured ==
    (rag_pc = "done" /\ failure = "none" /\ chat_request.top_k # <<>>) =>
        Len(response.sources) <= chat_request.top_k[1]

MaxContentLen == 5

ContentSymbols == {"a", ".", " ", "\n\n", "-"}

Contents == UNION { [1..n -> ContentSymbols] : n \in 0..MaxContentLen }

DocumentIds == {"law-1", "law-2"}

Strategies == {"semantic", "structural", "hybrid"}

\* DocumentChunker(chunk_size, chunk_overlap): budgets small enough for the
\* contents above to overflow them
ChunkerConfigs ==
    { [chunk_size |-> 3, chunk_overlap |-> 1],
      [chunk_size |-> 3, chunk_overlap |-> 2] }

\* \s
IsWhitespace(c) == c \in {" ", "\n\n"}

\* [.!?]
IsSentenceEnd(c) == c \in {".", "!", "?"}

\* the bullet marker; of the four patterns of _structural_chunk (\n\n##\s+,
\* \n\n\d+\.\s+, \n\n[A-Z][a-z]+:\s+, \n\n-\s+) it is the one the symbols spell
IsMarker(c) == c = "-"

\* count_tokens: the tokenizer is external; every word, full stop and bullet
\* counts as one token and whitespace as none
RECURSIVE count_tokens(_)
count_tokens(text) ==
    IF text = <<>> THEN 0
    ELSE (IF IsWhitespace(Head(text)) THEN 0 ELSE 1) + count_tokens(Tail(text))

\* the first position from i on that holds no whitespace
RECURSIVE SkipWhitespace(_, _)
SkipWhitespace(text, i) ==
    IF i <= Len(text) /\ IsWhitespace(text[i]) THEN SkipWhitespace(text, i + 1)
    ELSE i

\* re.split(r'(?<=[.!?])\s+', text), scanning from position i with the piece
\* begun so far
RECURSIVE SplitSentencesFrom(_, _, _)
SplitSentencesFrom(text, i, piece) ==
    IF i > Len(text) THEN <<piece>>
    ELSE IF IsWhitespace(text[i]) /\ i > 1 /\ IsSentenceEnd(text[i - 1])
         THEN <<piece>> \o SplitSentencesFrom(text, SkipWhitespace(text, i), <<>>)
         ELSE SplitSentencesFrom(text, i + 1, Append(piece, text[i]))

SplitSentences(text) == SplitSentencesFrom(text, 1, <<>>)

\* \n\n-\s+ matches at position i
MarkerMatchesAt(text, i) ==
    /\ i + 2 <= Len(text)
    /\ text[i] = "\n\n"
    /\ IsMarker(text[i + 1])
    /\ IsWhitespace(text[i + 2])

\* re.split(pattern, section): the pieces between the matches, the matched
\* text itself is not returned
RECURSIVE SplitOnMarkerFrom(_, _, _)
SplitOnMarkerFrom(text, i, piece) ==
    IF i > Len(text) THEN <<piece>>
    ELSE IF MarkerMatchesAt(text, i)
         THEN <<piece>> \o SplitOnMarkerFrom(text, SkipWhitespace(text, i + 2), <<>>)
         ELSE SplitOnMarkerFrom(text, i + 1, Append(piece, text[i]))

\* [p for p in parts if p.strip()]
RECURSIVE KeepNonBlank(_)
KeepNonBlank(parts) ==
    IF parts = <<>> THEN <<>>
    ELSE IF \E k \in 1..Len(Head(parts)) : ~IsWhitespace(Head(parts)[k])
         THEN <<Head(parts)>> \o KeepNonBlank(Tail(parts))
         ELSE KeepNonBlank(Tail(parts))

\* the sections of _structural_chunk
SplitSections(text) == KeepNonBlank(SplitOnMarkerFrom(text, 1, <<>>))

\* separator.join(parts)
RECURSIVE Join(_, _)
Join(parts, separator) ==
    IF parts = <<>> THEN <<>>
    ELSE IF Len(parts) = 1 THEN parts[1]
    ELSE parts[1] \o <<separator>> \o Join(Tail(parts), separator)

Chunk(parts, separator, carried) ==
    [parts |-> parts, separator |-> separator, carried |-> carried]

ChunkText(chunk) == Join(chunk.parts, chunk.separator)

\* the overlap loop: sentences of current_chunk from the last one backwards
\* while they fit in chunk_overlap, stopping at the first that does not
RECURSIVE OverlapSentences(_, _, _, _)
OverlapSentences(config, current_chunk, i, overlap_tokens) ==
    IF i = 0 THEN <<>>
    ELSE LET s_tokens == count_tokens(current_chunk[i])
         IN IF overlap_tokens + s_tokens <= config.chunk_overlap
            THEN OverlapSentences(config, current_chunk, i - 1,
                                  overlap_tokens + s_tokens)
                     \o <<current_chunk[i]>>
            ELSE <<>>

\* the loop of _semantic_chunk from sentence k on; current_tokens, the sum
\* of the token counts of the sentences of current_chunk, is recomputed
RECURSIVE SemanticLoop(_, _, _, _, _, _)
SemanticLoop(config, sentences, k, done, current_chunk, carried) ==
    IF k > Len(sentences)
    THEN IF current_chunk # <<>>
         THEN Append(done, Chunk(current_chunk, " ", carried))
         ELSE done
    ELSE LET sentence == sentences[k]
             sentence_tokens == count_tokens(sentence)
             current_tokens == count_tokens(Join(current_chunk, " "))
         IN IF current_tokens + sentence_tokens > config.chunk_size
               /\ current_chunk # <<>>
            THEN LET overlap_sentences ==
                         OverlapSentences(config, current_chunk,
                                          Len(current_chunk), 0)
                 IN SemanticLoop(config, sentences, k + 1,
                                 Append(done, Chunk(current_chunk, " ", carried)),
                                 Append(overlap_sentences, sentence),
                                 Len(overlap_sentences))
            ELSE SemanticLoop(config, sentences, k + 1, done,
                              Append(current_chunk, sentence), carried)

_semantic_chunk(config, text) ==
    SemanticLoop(config, SplitSentences(text), 1, <<>>, <<>>, 0)

\* the packing loop of _structural_chunk from section k on
RECURSIVE StructuralLoop(_, _, _, _, _)
StructuralLoop(config, sections, k, done, current_chunk) ==
    IF k > Len(sections)
    THEN IF current_chunk # <<>>
         THEN Append(done, Chunk(current_chunk, "\n\n", 0))
         ELSE done
    ELSE LET section == sections[k]
             section_tokens == count_tokens(section)
             current_tokens == count_tokens(Join(current_chunk, "\n\n"))
             closed == IF current_chunk # <<>>
                       THEN Append(done, Chunk(current_chunk, "\n\n", 0))
                       ELSE done
         IN IF section_tokens > config.chunk_size
            THEN StructuralLoop(config, sections, k + 1,
                                closed \o _semantic_chunk(config, section), <<>>)
            ELSE IF current_tokens + section_tokens > config.chunk_size
                    /\ current_chunk # <<>>
                 THEN StructuralLoop(config, sections, k + 1, closed, <<section>>)
                 ELSE StructuralLoop(config, sections, k + 1, done,
                                     Append(current_chunk, section))

_structural_chunk(config, text) ==
    StructuralLoop(config, SplitSections(text), 1, <<>>, <<>>)

\* re.search of the structural patterns
HasStructure(text) == \E i \in 1..Len(text) : MarkerMatchesAt(text, i)

_hybrid_chunk(config, text) ==
    IF HasStructure(text) THEN _structural_chunk(config, text)
    ELSE _semantic_chunk(config, text)

\* the strategy dispatch of chunk_document
StrategyChunks(config, content, how) ==
    IF how = "semantic" THEN _semantic_chunk(config, content)
    ELSE IF how = "structural" THEN _structural_chunk(config, content)
    ELSE _hybrid_chunk(config, content)

\* f"{document.get('id', 'doc')}__chunk_{idx}"
ChunkId(document_id, idx) == <<document_id, "__chunk_", idx>>

\* the loop over enumerate(chunks), numbering from 1
ChunkDocsFromOne(config, doc, pieces) ==
    [k \in 1..Len(pieces) |->
        [id |-> ChunkId(doc.id, k),
         content |-> ChunkText(pieces[k]),
         metadata |-> [chunk_index |-> k,
                       total_chunks |-> Len(pieces),
                       parent_document_id |-> doc.id,
                       token_count |-> count_tokens(ChunkText(pieces[k]))]]]

\* the loop over enumerate(chunks) that builds the chunk documents
ChunkDocs(config, doc, pieces) ==
    [k \in 1..Len(pieces) |->
        [id |-> ChunkId(doc.id, k - 1),
         content |-> ChunkText(pieces[k]),
         metadata |-> [chunk_index |-> k - 1,
                       total_chunks |-> Len(pieces),
                       parent_document_id |-> doc.id,
                       token_count |-> count_tokens(ChunkText(pieces[k]))]]]

ChunkerInit ==
    /\ chunker \in ChunkerConfigs
    /\ document \in [id : DocumentIds, content : Contents]
    /\ strategy = None
    /\ chunks = <<>>
    /\ chunk_docs = <<>>
    /\ chunk_pc = "ready"
    /\ RetrievalParked
    /\ NormalizerParked
    /\ ConfidenceParked
    /\ RagParked
    /\ IngestParked
    /\ ConcurrentParked

\* chunk_document(document, strategy)
ChunkDocument ==
    /\ chunk_pc = "ready"
    /\ \E how \in Strategies :
        LET pieces == StrategyChunks(chunker, document.content, how)
        IN /\ strategy' = how
           /\ chunks' = pieces
           /\ chunk_docs' = ChunkDocs(chunker, document, pieces)
    /\ chunk_pc' = "returned"
    /\ UNCHANGED <<chunker, document>>
    /\ UNCHANGED beside_chunker

ChunkerNext == ChunkDocument

ChunkerSpec == ChunkerInit /\ [][ChunkerNext]_vars

\* the content without its whitespace
RECURSIVE WithoutWhitespace(_)
WithoutWhitespace(text) ==
    IF text = <<>> THEN <<>>
    ELSE IF IsWhitespace(Head(text)) THEN WithoutWhitespace(Tail(text))
    ELSE <<Head(text)>> \o WithoutWhitespace(Tail(text))

\* the chunks put together in order, without the overlap sentences a chunk
\* repeats from the one before it
RECURSIVE Reassembled(_)
Reassembled(pieces) ==
    IF pieces = <<>> THEN <<>>
    ELSE LET chunk == Head(pieces)
             fresh == SubSeq(chunk.parts, chunk.carried + 1, Len(chunk.parts))
         IN Join(fresh, chunk.separator) \o Reassembled(Tail(pieces))

\* C15: every chunk has at most chunk_size tokens unless it consists of
\* exactly one sentence; a chunk begun with overlap sentences does not exceed
\* chunk_size once the next sentence is added.
C15_ChunkSizeBound ==
    chunk_pc = "returned" =>
        \A k \in 1..Len(chunk_docs) :
            chunk_docs[k].metadata.token_count > chunker.chunk_size =>
                /\ Len(chunks[k].parts) = 1
                /\ chunks[k].carried = 0

\* C16: in semantic mode with chunk_overlap > 0 and at least 2 chunks, every
\* chunk after the first starts with at least one sentence of the chunk
\* before it, unless that chunk is a single sentence larger than chunk_size.
C16_OverlapContinuity ==
    (chunk_pc = "returned" /\ strategy = "semantic" /\ chunker.chunk_overlap > 0
        /\ Len(chunks) >= 2) =>
        \A k \in 1..(Len(chunks) - 1) :
            \/ /\ chunks[k + 1].carried >= 1
               /\ SubSeq(chunks[k + 1].parts, 1, chunks[k + 1].carried)
                    = SubSeq(chunks[k].parts,
                             Len(chunks[k].parts) - chunks[k + 1].carried + 1,
                             Len(chunks[k].parts))
            \/ /\ Len(chunks[k].parts) = 1
               /\ count_tokens(chunks[k].parts[1]) > chunker.chunk_size

\* C17: for every strategy the chunks, put together in chunk_index order
\* without the repeated overlap sentences, give the content again up to
\* whitespace: no sentence, section or marker text is lost or moved.
C17_ChunkCoverage ==
    chunk_pc = "returned" =>
        WithoutWhitespace(Reassembled(chunks)) = WithoutWhitespace(document.content)

\* C18: a document with empty content gives zero chunks under each strategy.
C18_EmptyContentNoChunks ==
    (chunk_pc = "returned" /\ document.content = <<>>) => Len(chunk_docs) = 0

\* C19: the chunks carry chunk_index 0..n-1 in list order, total_chunks n,
\* the id "<document_id>__chunk_<chunk_index>" and the document's id as
\* parent_document_id.
C19_ChunkNumbering ==
    chunk_pc = "returned" =>
        \A k \in 1..Len(chunk_docs) :
            /\ chunk_docs[k].metadata.chunk_index = k - 1
            /\ chunk_docs[k].metadata.total_chunks = Len(chunk_docs)
            /\ chunk_docs[k].id
                 = <<document.id, "__chunk_", chunk_docs[k].metadata.chunk_index>>
            /\ chunk_docs[k].metadata.parent_document_id = document.id

\* C19 witness: a document cut into two chunks, the second one with overlap
C19_Witness ==
    /\ chunk_pc = "returned"
    /\ Len(chunk_docs) = 2
    /\ chunks[2].carried = 1
    /\ chunk_docs[1].id = <<document.id, "__chunk_", 0>>
    /\ chunk_docs[2].id = <<document.id, "__chunk_", 1>>

(***************************************************************************)
(* Ingestion (embedder.py, pinecone_ingestion.py, ingest_all_knowledge.py)  *)
(*                                                                           *)
(* The chunks of one document, as chunk_all_documents returns them, are     *)
(* embedded batch by batch, the embed_chunk tasks of a batch running        *)
(* concurrently, then turned into vectors and upserted batch by batch.      *)
(* Chunks are dicts that every step shares: chunk_list holds the objects,   *)
(* the lists of the steps hold their positions in it.                       *)
(***************************************************************************)
MaxIngestChunks == 4

\* n sentences of two tokens each
RECURSIVE Sentences(_)
Sentences(n) ==
    IF n = 0 THEN <<>>
    ELSE IF n = 1 THEN <<"a", ".">>
    ELSE Sentences(n - 1) \o <<" ", "a", ".">>

IngestContents == { Sentences(n) : n \in 1..MaxIngestChunks }

IngestDocuments == [id : DocumentIds, content : IngestContents]

\* DocumentChunker(chunk_size, chunk_overlap) of the run: one sentence fills
\* a chunk
IngestChunker == [chunk_size |-> 3, chunk_overlap |-> 1]

\* batch_size of the embedder and of upsert_vectors: small enough for a
\* document to span batches
IngestBatchSizes == {2, 3}

\* content[:1000]
MetadataContentLimit == 1000

\* text[:limit]
Truncate(text, limit) == SubSeq(text, 1, Min(Len(text), limit))

\* d[key] = value on a dict
SetItem(d, key, value) ==
    [k \in DOMAIN d \cup {key} |-> IF k = key THEN value ELSE d[k]]

\* embed_chunk: chunk["embedding"] = embedding, on the chunk it was handed
embed_chunk(chunk) == SetItem(chunk, "embedding", Embedding(chunk.content))

\* chunk.get("embedding") is there and not empty
HasEmbedding(chunk) == "embedding" \in DOMAIN chunk

\* prepare_vectors skips a chunk without id or embedding
Skipped(chunk) == chunk.id = <<>> \/ ~HasEmbedding(chunk)

\* prepare_vectors: metadata["content"] = content[:1000], on the metadata
\* dict of the chunk itself
MetadataWithContent(chunk) ==
    SetItem(chunk.metadata, "content", Truncate(chunk.content, MetadataContentLimit))

\* prepare_vectors: the keys whose value is not None are kept; a chunk of
\* chunk_document has no None among its metadata, and its values are
\* strings and integers, which are kept as they are
clean_metadata(metadata) == [key \in DOMAIN metadata |-> metadata[key]]

\* the chunk as the loop body of prepare_vectors leaves it
PreparedChunk(chunk) ==
    IF Skipped(chunk) THEN chunk
    ELSE [chunk EXCEPT !.metadata = MetadataWithContent(chunk)]

\* the vector dict prepare_vectors builds from a chunk
Vector(chunk) ==
    [id |-> chunk.id,
     values |-> chunk.embedding,
     metadata |-> clean_metadata(MetadataWithContent(chunk))]

\* prepare_vectors(chunks): the vectors of the chunks that are not skipped,
\* in the order of the list
RECURSIVE prepare_vectors(_)
prepare_vectors(chunk_seq) ==
    IF chunk_seq = <<>> THEN <<>>
    ELSE (IF Skipped(Head(chunk_seq)) THEN <<>> ELSE <<Vector(Head(chunk_seq))>>)
         \o prepare_vectors(Tail(chunk_seq))

\* items[i:i + size] as positions, for the 0-based offset i
BatchPositions(i, size, length) == (i + 1)..Min(i + size, length)

\* the positions of a set in ascending order
RECURSIVE Ascending(_)
Ascending(positions) ==
    IF positions = {} THEN <<>>
    ELSE LET low == CHOOSE p \in positions : \A r \in positions : p <= r
         IN <<low>> \o Ascending(positions \ {low})

\* asyncio.gather(*tasks): the results in the order of the awaitables,
\* whatever the order of completion (and, for comparison, a collection of
\* the results in the order of completion)
gather_as_completed(task_positions, completed) == completed
gather(task_positions, completed) == Ascending(task_positions)

beside_ingest ==
    <<retrieval_vars, normalizer_vars, confidence_vars, rag_vars, chunker_vars,
      concurrent_vars>>

IngestInit ==
    /\ ingest_document \in IngestDocuments
    /\ chunk_list = ChunkDocs(IngestChunker, ingest_document,
                              StrategyChunks(IngestChunker, ingest_document.content,
                                             "hybrid"))
    /\ created_chunks = chunk_list
    /\ batch_size \in IngestBatchSizes
    /\ loop_index = 0
    /\ tasks = {}
    /\ completion_log = <<>>
    /\ embedded_chunks = <<>>
    /\ vectors = <<>>
    /\ upserted = <<>>
    /\ ingest_pc = "embed_batch"
    /\ RetrievalParked
    /\ NormalizerParked
    /\ ConfidenceParked
    /\ RagParked
    /\ ChunkerParked
    /\ ConcurrentParked

\* embed_chunks_batch: the tasks of the next batch are created and awaited
StartBatch ==
    /\ ingest_pc = "embed_batch"
    /\ loop_index < Len(chunk_list)
    /\ tasks' = BatchPositions(loop_index, batch_size, Len(chunk_list))
    /\ completion_log' = <<>>
    /\ ingest_pc' = "gather"
    /\ UNCHANGED <<ingest_document, chunk_list, created_chunks, batch_size, loop_index,
                   embedded_chunks, vectors, upserted>>
    /\ UNCHANGED beside_ingest

\* one embed_chunk task gets its embedding and completes
EmbedChunkCompletes ==
    /\ ingest_pc = "gather"
    /\ \E k \in tasks :
        /\ chunk_list' = [chunk_list EXCEPT ![k] = embed_chunk(@)]
        /\ tasks' = tasks \ {k}
        /\ completion_log' = Append(completion_log, k)
    /\ UNCHANGED <<ingest_document, created_chunks, batch_size, loop_index, embedded_chunks,
                   vectors, upserted, ingest_pc>>
    /\ UNCHANGED beside_ingest

\* _generate_embedding gives up after its attempts: the task raises, gather
\* raises and embed_chunks_batch with it
EmbedChunkRaises ==
    /\ ingest_pc = "gather"
    /\ tasks # {}
    /\ ingest_pc' = "raised"
    /\ UNCHANGED <<ingest_document, chunk_list, created_chunks, batch_size, loop_index, tasks,
                   completion_log, embedded_chunks, vectors, upserted>>
    /\ UNCHANGED beside_ingest

\* every task of the batch completed: gather returns, the results are added
\* to embedded_chunks and the loop goes on; after the last batch ingest_chunks
\* is called
GatherReturns ==
    /\ ingest_pc = "gather"
    /\ tasks = {}
    /\ embedded_chunks' =
          embedded_chunks
          \o gather(BatchPositions(loop_index, batch_size, Len(chunk_list)),
                    completion_log)
    /\ IF loop_index + batch_size < Len(chunk_list)
       THEN /\ loop_index' = loop_index + batch_size
            /\ ingest_pc' = "embed_batch"
       ELSE /\ loop_index' = 0
            /\ ingest_pc' = "prepare_vectors"
    /\ UNCHANGED <<ingest_document, chunk_list, created_chunks, batch_size, tasks, completion_log,
                   vectors, upserted>>
    /\ UNCHANGED beside_ingest

\* ingest_chunks: prepare_vectors(chunks)
PrepareVectors ==
    /\ ingest_pc = "prepare_vectors"
    /\ vectors' = prepare_vectors([i \in 1..Len(embedded_chunks) |->
                                      chunk_list[embedded_chunks[i]]])
    /\ chunk_list' = [k \in 1..Len(chunk_list) |->
                         IF \E i \in 1..Len(embedded_chunks) : embedded_chunks[i] = k
                         THEN PreparedChunk(chunk_list[k])
                         ELSE chunk_list[k]]
    /\ ingest_pc' = "upsert_vectors"
    /\ UNCHANGED <<ingest_document, created_chunks, batch_size, loop_index, tasks, completion_log,
                   embedded_chunks, upserted>>
    /\ UNCHANGED beside_ingest

\* upsert_vectors: index.upsert(vectors=batch) writes the next batch
UpsertBatch ==
    /\ ingest_pc = "upsert_vectors"
    /\ loop_index < Len(vectors)
    /\ upserted' = upserted
                   \o [i \in 1..(Min(loop_index + batch_size, Len(vectors)) - loop_index)
                         |-> vectors[loop_index + i]]
    /\ loop_index' = loop_index + batch_size
    /\ UNCHANGED <<ingest_document, chunk_list, created_chunks, batch_size, tasks, completion_log,
                   embedded_chunks, vectors, ingest_pc>>
    /\ UNCHANGED beside_ingest

\* upsert_vectors: index.upsert raises, the error is printed and raised again
UpsertBatchRaises ==
    /\ ingest_pc = "upsert_vectors"
    /\ loop_index < Len(vectors)
    /\ ingest_pc' = "raised"
    /\ UNCHANGED <<ingest_document, chunk_list, created_chunks, batch_size, loop_index, tasks,
                   completion_log, embedded_chunks, vectors, upserted>>
    /\ UNCHANGED beside_ingest

\* upsert_vectors: the loop is over and ingest_chunks returns
IngestReturns ==
    /\ ingest_pc = "upsert_vectors"
    /\ loop_index >= Len(vectors)
    /\ ingest_pc' = "finished"
    /\ UNCHANGED <<ingest_document, chunk_list, created_chunks, batch_size, loop_index, tasks,
                   completion_log, embedded_chunks, vectors, upserted>>
    /\ UNCHANGED beside_ingest

IngestNext ==
    \/ StartBatch
    \/ EmbedChunkCompletes
    \/ EmbedChunkRaises
    \/ GatherReturns
    \/ PrepareVectors
    \/ UpsertBatch
    \/ UpsertBatchRaises
    \/ IngestReturns

IngestSpec == IngestInit /\ [][IngestNext]_vars

\* C21: the chunks of one document, embedded concurrently and upserted in
\* batches, are written to the index in ascending chunk_index order, in
\* whatever order the embedding calls complete.
C21_WrittenInChunkOrder ==
    \A i \in 1..Len(upserted) : \A j \in (i + 1)..Len(upserted) :
        upserted[i].metadata.parent_document_id = upserted[j].metadata.parent_document_id
        => upserted[i].metadata.chunk_index < upserted[j].metadata.chunk_index

\* C21 witness: a later chunk of a batch was embedded before an earlier one,
\* and both are written
C21_Witness ==
    /\ ingest_pc = "finished"
    /\ Len(completion_log) >= 2
    /\ completion_log[1] > completion_log[2]
    /\ Len(upserted) = Len(chunk_list)

\* C23: a chunk is never changed after chunk_document created it: embedding
\* and vector preparation leave its fields and its metadata as they were.
C23_ChunksNeverMutated ==
    \A k \in 1..Len(chunk_list) :
        /\ DOMAIN chunk_list[k] = DOMAIN created_chunks[k]
        /\ DOMAIN chunk_list[k].metadata = DOMAIN created_chunks[k].metadata

(***************************************************************************)
(* simple_ingest.py: process_document and the upload loop of main           *)
(*                                                                           *)
(* One document is chunked by chunk_text, its chunks are embedded one       *)
(* after the other, and the vectors are upserted in batches of 100.         *)
(***************************************************************************)
\* the environment of the run: CHUNK_SIZE so small that one sentence fills a
\* chunk
SimpleEnvironment == [CHUNK_SIZE |-> 3]

\* batch_size = 100 in main
SimpleBatchSize == 100

\* the loop of chunk_text from sentence k on
RECURSIVE ChunkTextLoop(_, _, _, _, _)
ChunkTextLoop(max_tokens, sentences, k, done, current_chunk) ==
    IF k > Len(sentences)
    THEN IF current_chunk # <<>>
         THEN Append(done, Join(current_chunk, " "))
         ELSE done
    ELSE LET sentence == sentences[k]
             sentence_tokens == count_tokens(sentence)
             current_tokens == count_tokens(Join(current_chunk, " "))
         IN IF current_tokens + sentence_tokens > max_tokens /\ current_chunk # <<>>
            THEN ChunkTextLoop(max_tokens, sentences, k + 1,
                               Append(done, Join(current_chunk, " ")), <<sentence>>)
            ELSE ChunkTextLoop(max_tokens, sentences, k + 1, done,
                               Append(current_chunk, sentence))

\* chunk_text(text, max_tokens): the texts of the chunks
chunk_text(text, max_tokens) ==
    ChunkTextLoop(max_tokens, SplitSentences(text), 1, <<>>, <<>>)

\* the vector process_document builds for the chunk chunk_idx of the document
SimpleVector(doc, chunk_idx, chunk_content, total_chunks) ==
    [id |-> ChunkId(doc.id, chunk_idx),
     values |-> Embedding(chunk_content),
     metadata |-> clean_metadata(
                     [content |-> Truncate(chunk_content, MetadataContentLimit),
                      chunk_index |-> chunk_idx,
                      total_chunks |-> total_chunks,
                      parent_document_id |-> doc.id])]

SimpleIngestInit ==
    /\ ingest_document \in IngestDocuments
    /\ chunk_list = chunk_text(ingest_document.content, SimpleEnvironment.CHUNK_SIZE)
    /\ created_chunks = chunk_list
    /\ batch_size = SimpleBatchSize
    /\ loop_index = 0
    /\ tasks = {}
    /\ completion_log = <<>>
    /\ embedded_chunks = <<>>
    /\ vectors = <<>>
    /\ upserted = <<>>
    /\ ingest_pc = "process_document"
    /\ RetrievalParked
    /\ NormalizerParked
    /\ ConfidenceParked
    /\ RagParked
    /\ ChunkerParked
    /\ ConcurrentParked

\* process_document: generate_embedding answers for the next chunk and its
\* vector is appended
SimpleChunkEmbedded ==
    /\ ingest_pc = "process_document"
    /\ loop_index < Len(chunk_list)
    /\ vectors' = Append(vectors,
                         SimpleVector(ingest_document, loop_index,
                                      chunk_list[loop_index + 1], Len(chunk_list)))
    /\ loop_index' = loop_index + 1
    /\ UNCHANGED <<ingest_document, chunk_list, created_chunks, batch_size, tasks,
                   completion_log, embedded_chunks, upserted, ingest_pc>>
    /\ UNCHANGED beside_ingest

\* process_document: generate_embedding caught an exception and returned
\* None; "if not embedding: continue" goes on with the next chunk
SimpleChunkSkipped ==
    /\ ingest_pc = "process_document"
    /\ loop_index < Len(chunk_list)
    /\ loop_index' = loop_index + 1
    /\ UNCHANGED <<ingest_document, chunk_list, created_chunks, batch_size, tasks,
                   completion_log, embedded_chunks, vectors, upserted, ingest_pc>>
    /\ UNCHANGED beside_ingest

\* process_document returns its vectors and main begins to upload
ProcessDocumentReturns ==
    /\ ingest_pc = "process_document"
    /\ loop_index = Len(chunk_list)
    /\ loop_index' = 0
    /\ ingest_pc' = "upload"
    /\ UNCHANGED <<ingest_document, chunk_list, created_chunks, batch_size, tasks,
                   completion_log, embedded_chunks, vectors, upserted>>
    /\ UNCHANGED beside_ingest

\* main: index.upsert(vectors=batch) writes the next batch
SimpleUpsertBatch ==
    /\ ingest_pc = "upload"
    /\ loop_index < Len(vectors)
    /\ upserted' = upserted
                   \o [i \in 1..(Min(loop_index + batch_size, Len(vectors)) - loop_index)
                         |-> vectors[loop_index + i]]
    /\ loop_index' = loop_index + batch_size
    /\ UNCHANGED <<ingest_document, chunk_list, created_chunks, batch_size, tasks,
                   completion_log, embedded_chunks, vectors, ingest_pc>>
    /\ UNCHANGED beside_ingest

\* main: index.upsert raises; the except block prints the error and the loop
\* goes on with the next batch
SimpleUpsertBatchFails ==
    /\ ingest_pc = "upload"
    /\ loop_index < Len(vectors)
    /\ loop_index' = loop_index + batch_size
    /\ UNCHANGED <<ingest_document, chunk_list, created_chunks, batch_size, tasks,
                   completion_log, embedded_chunks, vectors, upserted, ingest_pc>>
    /\ UNCHANGED beside_ingest

\* main: the upload loop is over, the statistics are printed and main returns
SimpleMainReturns ==
    /\ ingest_pc = "upload"
    /\ loop_index >= Len(vectors)
    /\ ingest_pc' = "finished"
    /\ UNCHANGED <<ingest_document, chunk_list, created_chunks, batch_size,
                   loop_index, tasks, completion_log, embedded_chunks, vectors,
                   upserted>>
    /\ UNCHANGED beside_ingest

SimpleIngestNext ==
    \/ SimpleChunkEmbedded
    \/ SimpleChunkSkipped
    \/ ProcessDocumentReturns
    \/ SimpleUpsertBatch
    \/ SimpleUpsertBatchFails
    \/ SimpleMainReturns

SimpleIngestSpec == SimpleIngestInit /\ [][SimpleIngestNext]_vars

\* C22: when an ingestion run finishes without raising, the chunk_index
\* values written to the index for the document are exactly
\* 0..total_chunks-1, none missing, even if an embedding call or an upsert
\* batch failed during the run.
C22_WrittenIndexesContiguous ==
    ingest_pc = "finished" =>
        { upserted[i].metadata.chunk_index : i \in 1..Len(upserted) }
            = 0..(Len(created_chunks) - 1)

(***************************************************************************)
(* Concurrent queries (rag_service.py, retrieval_service.py,                *)
(* metrics_service.py, api/chat.py)                                         *)
(*                                                                           *)
(* Several process_query coroutines run on one event loop against the one   *)
(* RetrievalService and the one MetricsCollector of the process.  A         *)
(* coroutine is left only at an await; the steps below are at most as long  *)
(* as the code between two awaits.  The metrics reset endpoint can be       *)
(* called at any time.                                                      *)
(***************************************************************************)
\* the queries under way at the same time
QueryIds == {1, 2}

\* answers of index.query: nothing, one match that only tier 2 keeps, two
\* matches that tier 1 keeps
ConcurrentResponses ==
    { <<>>,
      <<[id |-> 1, score |-> Tier2Threshold]>>,
      <<[id |-> 1, score |-> 70], [id |-> 2, score |-> Tier1Threshold]>> }

\* a tier that met an exception, or that was not run
NoAnswer == [raised |-> TRUE, matches |-> <<>>]

\* what process_query works with when check_availability answered False
Unavailable == [kind |-> "unavailable", docs |-> <<>>, tier |-> None]

\* the locals of a call of retrieve_with_fallback and of the process_query
\* that awaits it
NewFrame ==
    [tier |-> 0, attempt_number |-> 0, tier1_docs |-> <<>>, outcome |-> NoOutcome]

\* every call of a coroutine function has locals of its own (and, for
\* comparison, calls that keep their locals in one place)
CallFrameShared(q) == 1
CallFrame(q) == q

Local(q) == frames[CallFrame(q)]

\* the state the queries share besides the settings: the index connection of
\* the RetrievalService and the MetricsCollector
shared == <<index, _index_initialized, metrics_collector>>

beside_concurrent ==
    <<openai_client, pinecone_client, settings, control, frame, logs, request,
      normalizer_vars, confidence_vars, chunker_vars, ingest_vars,
      rag_pc, chat_request, retrieval_available, llm_available, tier_used,
      generated_answer, generate_calls, write_failed, retrieve_calls, failure,
      response>>

ConcurrentInit ==
    /\ q_pc = [q \in QueryIds |-> "idle"]
    /\ frames = [q \in QueryIds |-> NewFrame]
    /\ seen = [q \in QueryIds |-> <<NoAnswer, NoAnswer>>]
    /\ q_result = [q \in QueryIds |-> NoOutcome]
    /\ events = <<>>
    /\ RetrievalParked
    /\ NormalizerParked
    /\ ConfidenceParked
    /\ RagParked
    /\ ChunkerParked
    /\ IngestParked

\* process_query(request) is called and awaits check_availability
QueryCalled(q) ==
    /\ q_pc[q] = "idle"
    /\ frames' = [frames EXCEPT ![CallFrame(q)] = NewFrame]
    /\ q_pc' = [q_pc EXCEPT ![q] = "check_availability"]
    /\ events' = Append(events, <<"call", q>>)
    /\ UNCHANGED <<seen, q_result, shared, metrics_file>>
    /\ UNCHANGED beside_concurrent

\* check_availability: there is no connection yet and
\* pinecone_client.Index(...) raises; check_availability answers False and
\* process_query returns the response for an unavailable service
QueryUnavailable(q) ==
    /\ q_pc[q] = "check_availability"
    /\ ~_index_initialized
    /\ q_result' = [q_result EXCEPT ![q] = Unavailable]
    /\ q_pc' = [q_pc EXCEPT ![q] = "done"]
    /\ events' = Append(events, <<"return", q>>)
    /\ UNCHANGED <<frames, seen, shared, metrics_file>>
    /\ UNCHANGED beside_concurrent

\* check_availability: the connection is there or _ensure_index_connection
\* makes it; retrieve_with_fallback is called and enters tier 1
QueryAvailable(q) ==
    /\ q_pc[q] = "check_availability"
    /\ IndexReady
    /\ index' = TRUE
    /\ _index_initialized' = TRUE
    /\ frames' = [frames EXCEPT ![CallFrame(q)] = [@ EXCEPT !.tier = 1]]
    /\ q_pc' = [q_pc EXCEPT ![q] = "retrieve_documents"]
    /\ UNCHANGED <<seen, q_result, events, metrics_collector, metrics_file>>
    /\ UNCHANGED beside_concurrent

\* retrieve_documents raised: the except block of the tier the call is in
QueryExceptBlock(q) ==
    IF Local(q).tier = 1
    THEN /\ frames' = [frames EXCEPT ![CallFrame(q)] =
                          [@ EXCEPT !.tier = 2, !.attempt_number = 0]]
         /\ q_pc' = [q_pc EXCEPT ![q] = "retrieve_documents"]
    ELSE /\ frames' = [frames EXCEPT ![CallFrame(q)] =
                          [@ EXCEPT !.outcome = Tier2ExceptReturn(@.tier1_docs)]]
         /\ q_pc' = [q_pc EXCEPT ![q] = "returned"]

\* retrieve_documents: _ensure_index_connection returns at once, the
\* connection being there since check_availability; the query is
\* preprocessed and generate_embedding is awaited
QueryRetrieveBegins(q) ==
    /\ q_pc[q] = "retrieve_documents"
    /\ _index_initialized /\ index
    /\ frames' = [frames EXCEPT ![CallFrame(q)] = [@ EXCEPT !.attempt_number = 0]]
    /\ q_pc' = [q_pc EXCEPT ![q] = "generate_embedding"]
    /\ UNCHANGED <<seen, q_result, events, shared, metrics_file>>
    /\ UNCHANGED beside_concurrent

\* the embeddings call answers; index.query is awaited
QueryEmbeddingSucceeds(q) ==
    /\ q_pc[q] = "generate_embedding"
    /\ frames' = [frames EXCEPT ![CallFrame(q)] =
                     [@ EXCEPT !.attempt_number = @ + 1]]
    /\ q_pc' = [q_pc EXCEPT ![q] = "index_query"]
    /\ UNCHANGED <<seen, q_result, events, shared, metrics_file>>
    /\ UNCHANGED beside_concurrent

\* the embeddings call raises: another attempt, or the exception is raised
\* again after the last one
QueryEmbeddingFails(q) ==
    /\ q_pc[q] = "generate_embedding"
    /\ IF stop_after_attempt(Local(q).attempt_number + 1)
       THEN QueryExceptBlock(q)
       ELSE /\ frames' = [frames EXCEPT ![CallFrame(q)] =
                             [@ EXCEPT !.attempt_number = @ + 1]]
            /\ UNCHANGED q_pc
    /\ UNCHANGED <<seen, q_result, events, shared, metrics_file>>
    /\ UNCHANGED beside_concurrent

\* index.query answers: the documents of the tier, and what
\* retrieve_with_fallback does with them
QueryIndexReturns(q) ==
    /\ q_pc[q] = "index_query"
    /\ \E matches \in ConcurrentResponses :
        LET answer == [raised |-> FALSE, matches |-> matches]
            tier_now == Local(q).tier
            docs == TierDocuments(answer, IF tier_now = 1 THEN Tier1Threshold
                                          ELSE Tier2Threshold)
        IN /\ seen' = [seen EXCEPT ![q][IF tier_now = 1 THEN 1 ELSE 2] = answer]
           /\ IF tier_now = 1
              THEN IF Tier1Sufficient(docs)
                   THEN /\ frames' = [frames EXCEPT ![CallFrame(q)] =
                                         [@ EXCEPT !.tier1_docs = docs,
                                                   !.outcome = Return(docs, "tier1")]]
                        /\ q_pc' = [q_pc EXCEPT ![q] = "returned"]
                   ELSE /\ frames' = [frames EXCEPT ![CallFrame(q)] =
                                         [@ EXCEPT !.tier1_docs = docs, !.tier = 2,
                                                   !.attempt_number = 0]]
                        /\ q_pc' = [q_pc EXCEPT ![q] = "retrieve_documents"]
              ELSE /\ frames' = [frames EXCEPT ![CallFrame(q)] =
                                    [@ EXCEPT !.outcome = Tier2Return(docs)]]
                   /\ q_pc' = [q_pc EXCEPT ![q] = "returned"]
    /\ UNCHANGED <<q_result, events, shared, metrics_file>>
    /\ UNCHANGED beside_concurrent

\* index.query raises
QueryIndexFails(q) ==
    /\ q_pc[q] = "index_query"
    /\ QueryExceptBlock(q)
    /\ UNCHANGED <<seen, q_result, events, shared, metrics_file>>
    /\ UNCHANGED beside_concurrent

\* process_query has its (documents, tier_used), logs the query and returns
QueryLogged(q) ==
    /\ q_pc[q] = "returned"
    /\ LET result == Local(q).outcome
           logged == log_query(metrics_collector, metrics_file, <<"q", q>>,
                               result.tier, result.docs, None, 0, TRUE)
       IN /\ q_result' = [q_result EXCEPT ![q] = result]
          /\ metrics_collector' = logged.collector
          /\ metrics_file' = logged.file
    /\ q_pc' = [q_pc EXCEPT ![q] = "done"]
    /\ events' = Append(events, <<"return", q>>)
    /\ UNCHANGED <<frames, seen, index, _index_initialized>>
    /\ UNCHANGED beside_concurrent

\* POST /metrics/reset: reset_metrics()
MetricsResetCalled ==
    /\ metrics_collector' = reset_metrics(metrics_collector)
    /\ UNCHANGED <<concurrent_vars, index, _index_initialized, metrics_file>>
    /\ UNCHANGED beside_concurrent

ConcurrentNext ==
    \/ \E q \in QueryIds : QueryCalled(q)
    \/ \E q \in QueryIds : QueryUnavailable(q)
    \/ \E q \in QueryIds : QueryAvailable(q)
    \/ \E q \in QueryIds : QueryRetrieveBegins(q)
    \/ \E q \in QueryIds : QueryEmbeddingSucceeds(q)
    \/ \E q \in QueryIds : QueryEmbeddingFails(q)
    \/ \E q \in QueryIds : QueryIndexReturns(q)
    \/ \E q \in QueryIds : QueryIndexFails(q)
    \/ \E q \in QueryIds : QueryLogged(q)
    \/ MetricsResetCalled

ConcurrentSpec == ConcurrentInit /\ [][ConcurrentNext]_vars

\* every finished query has the result it gets alone from the answers it met
ResultsIndependent ==
    \A q \in QueryIds :
        q_pc[q] = "done" =>
            IF q_result[q] = Unavailable
            THEN seen[q] = <<NoAnswer, NoAnswer>>
            ELSE q_result[q] = retrieve_with_fallback(seen[q][1], seen[q][2])

\* the stored query metrics only grow
SinkAppended(before, after) ==
    /\ Len(before.query_metrics) <= Len(after.query_metrics)
    /\ SubSeq(after.query_metrics, 1, Len(before.query_metrics)) = before.query_metrics

\* C24: queries are processed independently: in every interleaving of
\* concurrent queries each query's (documents, tier) is what it gets alone
\* from the same answers of the collaborators, and the only state they share
\* is read-only configuration and the append-only metrics sink.
C24_QueriesIndependent ==
    /\ []ResultsIndependent
    /\ [][/\ index' = index
          /\ _index_initialized' = _index_initialized
          /\ SinkAppended(metrics_collector, metrics_collector')]_shared

\* C24 as amended: each query's result is what it gets alone; the shared
\* state is the configuration, the index connection, which the first query
\* that needs it makes and which never changes afterwards, and the metrics
\* sink, to which queries append and which only a reset empties.
C24_QueriesIndependentAmended ==
    /\ []ResultsIndependent
    /\ [][/\ (index' # index \/ _index_initialized' # _index_initialized)
               => (~_index_initialized /\ index' /\ _index_initialized')
          /\ \/ SinkAppended(metrics_collector, metrics_collector')
             \/ metrics_collector' = MetricsCollectorInit]_shared

\* C24 witness: query 2 was called while query 1 was under way and returned
\* before it, and the two have different results
C24_Witness ==
    /\ events = << <<"call", 1>>, <<"call", 2>>, <<"return", 2>>, <<"return", 1>> >>
    /\ q_result[1].tier = "tier1"
    /\ q_result[2].tier = "no_context"
    /\ _index_initialized
    /\ Len(metrics_collector.query_metrics) = 2

====
